---------------------------- MODULE Spec2Model ----------------------------
(***************************************************************************)
(* The shared transport layer of the go-tfe client: the constructor       *)
(* (NewClient), the rate governor (configureLimiter, limiter.Wait), the    *)
(* retry policy (retryHTTPCheck, retryHTTPBackoff, rateLimitBackoff), the  *)
(* request builder (newRequest, encodeQueryParams, serializeRequestBody),  *)
(* Client.do, the error classifier (checkResponseCode) and the response    *)
(* decoder (unmarshalResponse).                                            *)
(*                                                                         *)
(* Units: durations are in milliseconds; parsed decimal numbers are in     *)
(* thousandths (3000 is 3.0); a limiter rate is in 1/100000 per second.    *)
(***************************************************************************)
EXTENDS Integers, Sequences, FiniteSets, TLC

(***************************************************************************)
(* Strings.                                                                *)
(***************************************************************************)
Char(s, i) == SubSeq(s, i, i)

HasSuffix(s, suffix) ==
    /\ Len(s) >= Len(suffix)
    /\ SubSeq(s, Len(s) - Len(suffix) + 1, Len(s)) = suffix

Contains(s, substr) ==
    \E i \in 1..(Len(s) - Len(substr) + 1) : SubSeq(s, i, i + Len(substr) - 1) = substr

RECURSIVE Join(_, _)
Join(elems, sep) ==
    IF Len(elems) = 0 THEN ""
    ELSE IF Len(elems) = 1 THEN elems[1]
    ELSE elems[1] \o sep \o Join(Tail(elems), sep)

(***************************************************************************)
(* strconv.ParseFloat(v, 64) on the decimal forms [+-]digits[.digits].     *)
(* The value is in thousandths, truncated after the third decimal; any     *)
(* other text is a syntax error, for which ParseFloat returns 0 and err.   *)
(***************************************************************************)
Digits == "0123456789"

IsDigit(ch) == \E d \in 1..10 : Char(Digits, d) = ch

DigitVal(ch) == (CHOOSE d \in 1..10 : Char(Digits, d) = ch) - 1

AllDigits(s) == \A i \in 1..Len(s) : IsDigit(Char(s, i))

RECURSIVE DecVal(_)
DecVal(s) ==
    IF Len(s) = 0 THEN 0
    ELSE DecVal(SubSeq(s, 1, Len(s) - 1)) * 10 + DigitVal(Char(s, Len(s)))

HasSign(s) == Len(s) > 0 /\ Char(s, 1) \in {"+", "-"}

Unsigned(s) == IF HasSign(s) THEN SubSeq(s, 2, Len(s)) ELSE s

DotPos(s) ==
    IF \E i \in 1..Len(s) : Char(s, i) = "."
    THEN CHOOSE i \in 1..Len(s) :
            /\ Char(s, i) = "."
            /\ \A j \in 1..(i - 1) : Char(s, j) # "."
    ELSE Len(s) + 1

IntPart(s) == SubSeq(s, 1, DotPos(s) - 1)

FracPart(s) == SubSeq(s, DotPos(s) + 1, Len(s))

Thousandths(frac) == DecVal(SubSeq(frac \o "000", 1, 3))

ParseFloat(v) ==
    LET u == Unsigned(v)
        ip == IntPart(u)
        fp == FracPart(u)
        wellFormed == /\ Len(ip) + Len(fp) > 0
                      /\ AllDigits(ip)
                      /\ AllDigits(fp)
        mag == DecVal(ip) * 1000 + Thousandths(fp)
    IN  IF wellFormed
        THEN [val |-> IF HasSign(v) /\ Char(v, 1) = "-" THEN 0 - mag ELSE mag,
              err |-> FALSE]
        ELSE [val |-> 0, err |-> TRUE]

(***************************************************************************)
(* Error values.  A sentinel error (ErrUnauthorized, ...) is identified by *)
(* its name; errors made with fmt.Errorf carry their message.              *)
(***************************************************************************)
Err(kind, msg) == [kind |-> kind, msg |-> msg]

Sentinel(name) == Err(name, name)

Nil == Err("nil", "")

\* ctx.Err(): the cancellation's reason.
CtxErr == Sentinel("ctx.Err")

\* The error http.Client.Do returns when the exchange itself fails.
ErrTransport == Sentinel("transport")

\* The errors of rate.Limiter.Wait that are not the context's.
ErrExceedsBurst == Sentinel("rate: Wait(n=1) exceeds limiter's burst")

ErrWouldExceedDeadline == Sentinel("rate: Wait(n=1) would exceed context deadline")

ErrUnauthorized == Sentinel("ErrUnauthorized")

ErrResourceNotFound == Sentinel("ErrResourceNotFound")

ErrWorkspaceLocked == Sentinel("ErrWorkspaceLocked")

ErrWorkspaceNotLocked == Sentinel("ErrWorkspaceNotLocked")

ErrWorkspaceLockedByRun == Sentinel("ErrWorkspaceLockedByRun")

InString(ch, s) == \E i \in 1..Len(s) : Char(s, i) = ch

\* The first position of s from i on whose character is not one of chars.
RECURSIVE SkipChars(_, _, _)
SkipChars(s, i, chars) ==
    IF i <= Len(s) /\ InString(Char(s, i), chars)
    THEN SkipChars(s, i + 1, chars)
    ELSE i

\* The position of the verb of the directive whose "%" is just before i: after
\* the flags, the width and the precision.
VerbPos(format, i) ==
    LET afterFlags == SkipChars(format, i, "#0-+ ")
        afterWidth == SkipChars(format, afterFlags, Digits)
    IN  IF afterWidth <= Len(format) /\ Char(format, afterWidth) = "."
        THEN SkipChars(format, afterWidth + 1, Digits)
        ELSE afterWidth

\* fmt.Sprintf(format) with no operands, for formats without "*" and "[":
\* text is copied, "%%" is "%", a directive has no operand to print.
RECURSIVE Sprintf(_)
Sprintf(format) ==
    IF Len(format) = 0
    THEN ""
    ELSE IF Char(format, 1) # "%"
    THEN Char(format, 1) \o Sprintf(SubSeq(format, 2, Len(format)))
    ELSE LET verb == VerbPos(format, 2)
         IN  IF verb > Len(format)
             THEN "%!(NOVERB)"
             ELSE (IF Char(format, verb) = "%"
                   THEN "%"
                   ELSE "%!" \o Char(format, verb) \o "(MISSING)")
                  \o Sprintf(SubSeq(format, verb + 1, Len(format)))

\* fmt.Errorf(format): the argument is a format string.
Errorf(format) == Err("error", Sprintf(format))

(***************************************************************************)
(* HTTP responses.  A response carries its status, the path of the request *)
(* it answers (r.Request.URL.Path), the X-RateLimit-Reset header ("" when  *)
(* absent) and its body as the JSON decoder sees it: whether it decodes    *)
(* into an errors payload, and the payload's (title, detail) entries.      *)
(***************************************************************************)
StatusText(status) ==
    CASE status = 100 -> "Continue"
      [] status = 200 -> "OK"
      [] status = 204 -> "No Content"
      [] status = 300 -> "Multiple Choices"
      [] status = 304 -> "Not Modified"
      [] status = 400 -> "Bad Request"
      [] status = 401 -> "Unauthorized"
      [] status = 404 -> "Not Found"
      [] status = 409 -> "Conflict"
      [] status = 429 -> "Too Many Requests"
      [] status = 500 -> "Internal Server Error"
      [] status = 503 -> "Service Unavailable"
      [] OTHER -> ""

RECURSIVE Itoa(_)
Itoa(n) == IF n < 10 THEN Char(Digits, n + 1) ELSE Itoa(n \div 10) \o Char(Digits, (n % 10) + 1)

\* r.Status
StatusLine(status) == Itoa(status) \o " " \o StatusText(status)

Body(decodes, errors) == [decodes |-> decodes, errors |-> errors]

NoBody == Body(FALSE, <<>>)

\* version and limit: the TFP-API-Version and X-RateLimit-Limit headers.
Response(status, path, reset, body) ==
    [nil |-> FALSE, status |-> status, path |-> path, reset |-> reset, body |-> body,
     version |-> "", limit |-> ""]

WithMeta(resp, version, limit) == [resp EXCEPT !.version = version, !.limit = limit]

\* resp == nil
NilResp ==
    [nil |-> TRUE, status |-> 0, path |-> "", reset |-> "", body |-> NoBody,
     version |-> "", limit |-> ""]

(***************************************************************************)
(* The rate governor.                                                      *)
(***************************************************************************)
\* rate.Inf
RateInf == [inf |-> TRUE, rate |-> 0]

RateOf(r) == [inf |-> FALSE, rate |-> r]

\* The split of the server's limit, in hundredths: 0.66 and 0.33.
LimitSplit == 66

BurstSplit == 33

\* rate.NewLimiter(limit, burst); fatal: log.Fatal ended the process instead.
NewLimiter(limit, burst) == [limit |-> limit, burst |-> burst, fatal |-> FALSE]

LogFatal == [limit |-> RateInf, burst |-> 0, fatal |-> TRUE]

\* Variant of configureLimiter with a slip: the two shares exchanged.
configureLimiterSharesExchanged(rawLimit) ==
    LET parsed == ParseFloat(rawLimit)
        rateLimit == parsed.val
    IN  IF rawLimit # "" /\ rateLimit > 0
        THEN IF parsed.err
             THEN LogFatal
             ELSE NewLimiter(RateOf(rateLimit * BurstSplit), (rateLimit * LimitSplit) \div 100000)
        ELSE NewLimiter(RateInf, 0)

configureLimiter(rawLimit) ==
    LET parsed == ParseFloat(rawLimit)
        rateLimit == parsed.val
    IN  IF rawLimit # "" /\ rateLimit > 0
        THEN IF parsed.err
             THEN LogFatal
             ELSE NewLimiter(RateOf(rateLimit * LimitSplit), (rateLimit * BurstSplit) \div 100000)
        ELSE NewLimiter(RateInf, 0)

(***************************************************************************)
(* The retry policy.                                                       *)
(***************************************************************************)
\* retryablehttp.Client{RetryWaitMin, RetryWaitMax, RetryMax} as NewClient sets them.
RetryWaitMin == 100

RetryWaitMax == 400

RetryMax == 30

\* The bounds retryHTTPBackoff substitutes for a service interruption.
InterruptionMin == 700

InterruptionMax == 900

\* Variants of retryHTTPCheck with a slip: the transport error looked at before
\* the context; every status >= 500 retried; the context not looked at.
retryHTTPCheckErrFirst(retryServerErrors, ctxDone, resp, err) ==
    IF err # Nil
    THEN [retry |-> retryServerErrors, err |-> err]
    ELSE IF ctxDone
    THEN [retry |-> FALSE, err |-> CtxErr]
    ELSE IF resp.status = 429 \/ (retryServerErrors /\ resp.status >= 500)
    THEN [retry |-> TRUE, err |-> Nil]
    ELSE [retry |-> FALSE, err |-> Nil]

retryHTTPCheckAnyServerError(retryServerErrors, ctxDone, resp, err) ==
    IF ctxDone
    THEN [retry |-> FALSE, err |-> CtxErr]
    ELSE IF err # Nil
    THEN [retry |-> retryServerErrors, err |-> err]
    ELSE IF resp.status = 429 \/ resp.status >= 500
    THEN [retry |-> TRUE, err |-> Nil]
    ELSE [retry |-> FALSE, err |-> Nil]

retryHTTPCheckNoContext(retryServerErrors, ctxDone, resp, err) ==
    IF err # Nil
    THEN [retry |-> retryServerErrors, err |-> err]
    ELSE IF resp.status = 429 \/ (retryServerErrors /\ resp.status >= 500)
    THEN [retry |-> TRUE, err |-> Nil]
    ELSE [retry |-> FALSE, err |-> Nil]

\* CheckRetry: whether to retry, and the error to report.  ctxDone: ctx.Err() != nil.
retryHTTPCheck(retryServerErrors, ctxDone, resp, err) ==
    IF ctxDone
    THEN [retry |-> FALSE, err |-> CtxErr]
    ELSE IF err # Nil
    THEN [retry |-> retryServerErrors, err |-> err]
    ELSE IF resp.status = 429 \/ (retryServerErrors /\ resp.status >= 500)
    THEN [retry |-> TRUE, err |-> Nil]
    ELSE [retry |-> FALSE, err |-> Nil]

\* A wait, or the process ended by log.Fatal.
Wait(d) == [fatal |-> FALSE, wait |-> d]

FatalWait == [fatal |-> TRUE, wait |-> 0]

\* Variant of Jitter with a slip: rounded up, so that it can reach span.
JitterRoundedUp(float64, span) == (float64 * span + 999) \div 1000

\* time.Duration(rnd.Float64() * float64(span)); float64 is rnd.Float64() in
\* thousandths, a value of [0, 1).
Jitter(float64, span) == (float64 * span) \div 1000


rateLimitBackoff(min, max, resp, float64) ==
    LET jitter == Jitter(float64, max - min)
        v == resp.reset
        parsed == ParseFloat(v)
        reset == parsed.val
    IN  IF ~resp.nil /\ v # ""
        THEN IF parsed.err
             THEN FatalWait
             ELSE IF reset > 0 /\ reset > min
                  THEN Wait(reset + jitter)
                  ELSE Wait(min + jitter)
        ELSE Wait(min + jitter)

\* retryablehttp.LinearJitterBackoff
LinearJitterBackoff(min, max, attemptNum, resp, float64) ==
    IF max <= min
    THEN Wait(min * (attemptNum + 1))
    ELSE Wait((Jitter(float64, max - min) + min) * (attemptNum + 1))

\* Invoked(attemptNum, resp): one invocation of the retry-observer hook.
Invoked(attemptNum, resp) == [attemptNum |-> attemptNum, resp |-> resp]

\* Variant of retryLogHook with a slip: no invocation without a response.
retryLogHookSkipsNil(hook, attemptNum, resp) ==
    IF hook /\ ~resp.nil THEN <<Invoked(attemptNum, resp)>> ELSE <<>>

\* The first statement of retryHTTPBackoff: the invocations of c.retryLogHook
\* it makes; hook: c.retryLogHook != nil.  The hook is an observer: it returns
\* and leaves the response it is handed as it is.
retryLogHook(hook, attemptNum, resp) ==
    IF hook THEN <<Invoked(attemptNum, resp)>> ELSE <<>>

\* Variant of retryHTTPBackoff with a slip: the bounds passed in are kept.
retryHTTPBackoffKeepsBounds(min, max, attemptNum, resp, float64) ==
    IF ~resp.nil /\ resp.status = 429
    THEN rateLimitBackoff(min, max, resp, float64)
    ELSE LinearJitterBackoff(min, max, attemptNum, resp, float64)

retryHTTPBackoff(min, max, attemptNum, resp, float64) ==
    IF ~resp.nil /\ resp.status = 429
    THEN rateLimitBackoff(min, max, resp, float64)
    ELSE LinearJitterBackoff(InterruptionMin, InterruptionMax, attemptNum, resp, float64)

(***************************************************************************)
(* The error classifier.                                                   *)
(***************************************************************************)
\* The (errs, err) pair decodeErrorPayload returns.
decodeErrorPayload(r) ==
    IF ~r.body.decodes \/ Len(r.body.errors) = 0
    THEN [errs |-> <<>>, err |-> Errorf(StatusLine(r.status))]
    ELSE [errs |-> [i \in 1..Len(r.body.errors) |->
                      LET e == r.body.errors[i]
                      IN  IF e.detail = ""
                          THEN e.title
                          ELSE e.title \o "\n\n" \o e.detail],
          err |-> Nil]

errorPayloadContains(payloadErrors, match) ==
    \E i \in 1..Len(payloadErrors) : Contains(payloadErrors[i], match)

\* The tail of checkResponseCode: every status no case returned for.
requestFailed(r) ==
    LET decoded == decodeErrorPayload(r)
    IN  IF decoded.err # Nil
        THEN decoded.err
        ELSE Errorf(Join(decoded.errs, "\n"))

unlockConflict(r) ==
    LET decoded == decodeErrorPayload(r)
    IN  IF decoded.err # Nil
        THEN decoded.err
        ELSE IF errorPayloadContains(decoded.errs, "is locked by Run")
        THEN ErrWorkspaceLockedByRun
        ELSE ErrWorkspaceNotLocked

\* Whether checkResponseCode reads r.Body: decodeErrorPayload, its only reader,
\* is called on the unlock path of a 409 and in the tail.
readsErrorPayload(r) ==
    /\ ~(r.status >= 200 /\ r.status <= 299)
    /\ r.status # 401
    /\ r.status # 404
    /\ r.status = 409
          => \/ HasSuffix(r.path, "actions/unlock")
                   /\ ~HasSuffix(r.path, "actions/lock")
             \/ /\ ~HasSuffix(r.path, "actions/lock")
                /\ ~HasSuffix(r.path, "actions/unlock")
                /\ ~HasSuffix(r.path, "actions/force-unlock")

\* Variant of checkResponseCode with a slip: every status below 400 passes.
checkResponseCodeRedirectsPass(r) ==
    IF r.status >= 200 /\ r.status < 400
    THEN Nil
    ELSE CASE r.status = 401 -> ErrUnauthorized
           [] r.status = 404 -> ErrResourceNotFound
           [] r.status = 409 /\ HasSuffix(r.path, "actions/lock") -> ErrWorkspaceLocked
           [] r.status = 409 /\ ~HasSuffix(r.path, "actions/lock")
                             /\ HasSuffix(r.path, "actions/unlock") -> unlockConflict(r)
           [] r.status = 409 /\ ~HasSuffix(r.path, "actions/lock")
                             /\ ~HasSuffix(r.path, "actions/unlock")
                             /\ HasSuffix(r.path, "actions/force-unlock") -> ErrWorkspaceNotLocked
           [] OTHER -> requestFailed(r)

\* Variant of checkResponseCode with a slip: the lock case matches on "lock".
checkResponseCodeLockShadows(r) ==
    IF r.status >= 200 /\ r.status <= 299
    THEN Nil
    ELSE CASE r.status = 401 -> ErrUnauthorized
           [] r.status = 404 -> ErrResourceNotFound
           [] r.status = 409 /\ HasSuffix(r.path, "lock") -> ErrWorkspaceLocked
           [] r.status = 409 /\ ~HasSuffix(r.path, "lock")
                             /\ HasSuffix(r.path, "actions/unlock") -> unlockConflict(r)
           [] r.status = 409 /\ ~HasSuffix(r.path, "lock")
                             /\ ~HasSuffix(r.path, "actions/unlock")
                             /\ HasSuffix(r.path, "actions/force-unlock") -> ErrWorkspaceNotLocked
           [] OTHER -> requestFailed(r)

checkResponseCode(r) ==
    IF r.status >= 200 /\ r.status <= 299
    THEN Nil
    ELSE CASE r.status = 401 -> ErrUnauthorized
           [] r.status = 404 -> ErrResourceNotFound
           [] r.status = 409 /\ HasSuffix(r.path, "actions/lock") -> ErrWorkspaceLocked
           [] r.status = 409 /\ ~HasSuffix(r.path, "actions/lock")
                             /\ HasSuffix(r.path, "actions/unlock") -> unlockConflict(r)
           [] r.status = 409 /\ ~HasSuffix(r.path, "actions/lock")
                             /\ ~HasSuffix(r.path, "actions/unlock")
                             /\ HasSuffix(r.path, "actions/force-unlock") -> ErrWorkspaceNotLocked
           [] OTHER -> requestFailed(r)

(***************************************************************************)
(* The response decoder.  A destination (model) is a shape and a value.    *)
(* The shape: its kind, its Items field ("none": not declared, "slice", or *)
(* "other": declared with another type), whether it declares Pagination,   *)
(* the resource type of its own jsonapi primary tag ("": no such tag) and  *)
(* of the elements of Items, and its %v text.  The value: the fields Items *)
(* and Pagination and the attributes a single-resource decoding fills.     *)
(* A body is a single-resource document ("one"), a multi-resource document *)
(* ("many") or not a JSON:API document ("invalid"); its meta.pagination is *)
(* "absent", an "object" of numbers, or "malformed" (not numbers).         *)
(***************************************************************************)
ErrItemsMustBeSlice == Sentinel("ErrItemsMustBeSlice")

\* encoding/json's error: a syntax error, or a value of the wrong JSON type.
ErrJSON == Sentinel("json: cannot unmarshal")

\* jsonapi's error for a resource whose type is not the primary tag's.
ErrTypeMismatch == Sentinel("jsonapi: type does not match")

Resource(type, id) == [type |-> type, id |-> id]

NoResource == Resource("", "")

PaginationOf(current, previous, next, pages, count) ==
    [CurrentPage |-> current, PreviousPage |-> previous, NextPage |-> next,
     TotalPages |-> pages, TotalCount |-> count]

\* Pagination{}
ZeroPagination == PaginationOf(0, 0, 0, 0, 0)

Meta(form, pagination) == [form |-> form, pagination |-> pagination]

ResponseBody(form, data, meta) == [form |-> form, data |-> data, meta |-> meta]

Shape(kind, items, pagination, primary, elem, text) ==
    [kind |-> kind, items |-> items, pagination |-> pagination, primary |-> primary,
     elem |-> elem, text |-> text]

Value(items, pagination, attrs) == [Items |-> items, Pagination |-> pagination, attrs |-> attrs]

Model(shape, value) == [shape |-> shape, value |-> value]

\* What unmarshalResponse leaves: the destination's value, the error, and the
\* decoder it called ("none", "single", "many").
Unmarshalled(value, err, mode) == [value |-> value, err |-> err, mode |-> mode]

\* jsonapi.UnmarshalPayload(responseBody, model)
UnmarshalPayload(body, model) ==
    IF body.form # "one"
    THEN [value |-> model.value, err |-> ErrJSON]
    ELSE IF model.shape.primary = ""
    THEN [value |-> model.value, err |-> Nil]
    ELSE IF body.data[1].type # model.shape.primary
    THEN [value |-> model.value, err |-> ErrTypeMismatch]
    ELSE [value |-> [model.value EXCEPT !.attrs = body.data[1]], err |-> Nil]

\* jsonapi.UnmarshalManyPayload(reader, items.Type().Elem())
UnmarshalManyPayload(body, elem) ==
    IF body.form # "many"
    THEN [raw |-> <<>>, err |-> ErrJSON]
    ELSE IF \E i \in 1..Len(body.data) : body.data[i].type # elem
    THEN [raw |-> <<>>, err |-> ErrTypeMismatch]
    ELSE [raw |-> body.data, err |-> Nil]

parsePagination(body) ==
    CASE body.meta.form = "malformed" -> [p |-> ZeroPagination, err |-> ErrJSON]
      [] body.meta.form = "absent" -> [p |-> ZeroPagination, err |-> Nil]
      [] OTHER -> [p |-> body.meta.pagination, err |-> Nil]

\* Variant of unmarshalResponse with a slip: a single value is decoded only
\* when neither field is declared.
unmarshalResponseNeitherField(body, model) ==
    IF model.shape.kind # "struct"
    THEN Unmarshalled(model.value,
                      Err("error", model.shape.text \o " must be a struct or an io.Writer"),
                      "none")
    ELSE IF model.shape.items = "none" /\ ~model.shape.pagination
    THEN LET one == UnmarshalPayload(body, model)
         IN  Unmarshalled(one.value, one.err, "single")
    ELSE IF model.shape.items # "slice"
    THEN Unmarshalled(model.value, ErrItemsMustBeSlice, "none")
    ELSE LET many == UnmarshalManyPayload(body, model.shape.elem)
             swapped == [model.value EXCEPT !.Items = many.raw]
             p == parsePagination(body)
         IN  IF many.err # Nil
             THEN Unmarshalled(model.value, many.err, "many")
             ELSE IF p.err # Nil
             THEN Unmarshalled(swapped, p.err, "many")
             ELSE Unmarshalled([swapped EXCEPT !.Pagination = p.p], Nil, "many")

\* Variant of unmarshalResponse with a slip: the results are appended to Items.
unmarshalResponseAppends(body, model) ==
    IF model.shape.kind # "struct"
    THEN Unmarshalled(model.value,
                      Err("error", model.shape.text \o " must be a struct or an io.Writer"),
                      "none")
    ELSE IF model.shape.items = "none" \/ ~model.shape.pagination
    THEN LET one == UnmarshalPayload(body, model)
         IN  Unmarshalled(one.value, one.err, "single")
    ELSE IF model.shape.items # "slice"
    THEN Unmarshalled(model.value, ErrItemsMustBeSlice, "none")
    ELSE LET many == UnmarshalManyPayload(body, model.shape.elem)
             swapped == [model.value EXCEPT !.Items = @ \o many.raw]
             p == parsePagination(body)
         IN  IF many.err # Nil
             THEN Unmarshalled(model.value, many.err, "many")
             ELSE IF p.err # Nil
             THEN Unmarshalled(swapped, p.err, "many")
             ELSE Unmarshalled([swapped EXCEPT !.Pagination = p.p], Nil, "many")

unmarshalResponse(body, model) ==
    IF model.shape.kind # "struct"
    THEN Unmarshalled(model.value,
                      Err("error", model.shape.text \o " must be a struct or an io.Writer"),
                      "none")
    ELSE IF model.shape.items = "none" \/ ~model.shape.pagination
    THEN LET one == UnmarshalPayload(body, model)
         IN  Unmarshalled(one.value, one.err, "single")
    ELSE IF model.shape.items # "slice"
    THEN Unmarshalled(model.value, ErrItemsMustBeSlice, "none")
    ELSE LET many == UnmarshalManyPayload(body, model.shape.elem)
             swapped == [model.value EXCEPT !.Items = many.raw]
             p == parsePagination(body)
         IN  IF many.err # Nil
             THEN Unmarshalled(model.value, many.err, "many")
             ELSE IF p.err # Nil
             THEN Unmarshalled(swapped, p.err, "many")
             ELSE Unmarshalled([swapped EXCEPT !.Pagination = p.p], Nil, "many")

(***************************************************************************)
(* The request encoder.  A payload v is described by what reflection sees: *)
(* kind is the kind of its type ("nil" for the nil interface, whose type   *)
(* is nil), elem the kind of a slice's elements, target the kind of what a *)
(* pointer, or a slice's pointer elements, point to, isNil whether a       *)
(* pointer is nil, fields the (jsonapi, json) tags of the target struct's  *)
(* fields in order, encodable whether the chosen marshaller accepts v.     *)
(***************************************************************************)
ErrInvalidRequestBody == Sentinel("ErrInvalidRequestBody")

ErrInvalidStructFormat == Sentinel("ErrInvalidStructFormat")

\* The error json.Marshal or jsonapi.MarshalPayloadWithoutIncluded returns.
ErrMarshal == Sentinel("marshal")

Tag(jsonapi, json) == [jsonapi |-> jsonapi, json |-> json]

Payload(kind, elem, target, isNil, fields, encodable) ==
    [kind |-> kind, elem |-> elem, target |-> target, isNil |-> isNil, fields |-> fields,
     encodable |-> encodable]

\* (body, err) as serializeRequestBody returns them, body named by its
\* dialect; or the panic that ends the call instead.
Serialized(dialect) == [dialect |-> dialect, err |-> Nil, panic |-> FALSE]

NotSerialized(err) == [dialect |-> "none", err |-> err, panic |-> FALSE]

Panicked == [dialect |-> "none", err |-> Nil, panic |-> TRUE]

serializeRequestBody(v) ==
    IF v.kind = "nil"
    THEN Panicked
    ELSE IF v.kind = "slice" /\ v.elem # "ptr"
    THEN NotSerialized(ErrInvalidRequestBody)
    ELSE IF v.kind \notin {"slice", "ptr"}
    THEN NotSerialized(ErrInvalidRequestBody)
    ELSE IF v.kind = "ptr" /\ v.isNil
    THEN Panicked
    ELSE IF v.target # "struct"
    THEN Panicked
    ELSE LET jsonAPIFields == Cardinality({i \in 1..Len(v.fields) : v.fields[i].jsonapi # ""})
             jsonFields == Cardinality({i \in 1..Len(v.fields) : v.fields[i].json # ""})
         IN  IF jsonAPIFields > 0 /\ jsonFields > 0
             THEN NotSerialized(ErrInvalidStructFormat)
             ELSE IF jsonFields > 0
             THEN IF v.encodable THEN Serialized("json") ELSE NotSerialized(ErrMarshal)
             ELSE IF v.encodable THEN Serialized("jsonapi") ELSE NotSerialized(ErrMarshal)

(***************************************************************************)
(* The query encoder.  url.Values is a function from keys to sequences of  *)
(* values (nil and the empty map are the empty function).                  *)
(***************************************************************************)
\* The characters of the model's keys and values, in byte order.
Bytes == " %&+,-.0123456789=ABCDEFGHIJKLMNOPQRSTUVWXYZ[]_abcdefghijklmnopqrstuvwxyz~"

Ord(ch) == CHOOSE i \in 1..Len(Bytes) : Char(Bytes, i) = ch

\* a < b as Go compares strings: byte by byte.
StringLess(a, b) ==
    \E i \in 1..Len(b) :
        /\ i - 1 <= Len(a)
        /\ SubSeq(a, 1, i - 1) = SubSeq(b, 1, i - 1)
        /\ i > Len(a) \/ Ord(Char(a, i)) < Ord(Char(b, i))

\* keys, as sort.Strings leaves them.
RECURSIVE SortStrings(_)
SortStrings(keys) ==
    IF keys = {}
    THEN <<>>
    ELSE LET least == CHOOSE k \in keys : \A other \in keys \ {k} : StringLess(k, other)
         IN  <<least>> \o SortStrings(keys \ {least})

\* url.QueryEscape's characters left as they are, and the escapes of the others.
Unreserved == "-.0123456789ABCDEFGHIJKLMNOPQRSTUVWXYZ_abcdefghijklmnopqrstuvwxyz~"

Escapes ==
    {<<" ", "+">>, <<"%", "%25">>, <<"&", "%26">>, <<"+", "%2B">>, <<",", "%2C">>,
     <<"=", "%3D">>, <<"[", "%5B">>, <<"]", "%5D">>}

EscapeChar(ch) ==
    IF InString(ch, Unreserved)
    THEN ch
    ELSE (CHOOSE e \in Escapes : e[1] = ch)[2]

\* Variant of QueryEscape with a slip: nothing is escaped.
QueryEscapeNothing(str) == str

RECURSIVE QueryEscape(_)
QueryEscape(str) ==
    IF Len(str) = 0
    THEN ""
    ELSE EscapeChar(Char(str, 1)) \o QueryEscape(SubSeq(str, 2, Len(str)))

\* Variant of validSliceKey with a slip: only "include" is a slice key.
validSliceKeyIncludeOnly(key) == key = "include"

validSliceKey(key) == key = "include" \/ Contains(key, "filter[")

\* The values written for key k: joined into one for a slice key.
valuesWritten(v, k) ==
    IF Len(v[k]) > 1 /\ validSliceKey(k)
    THEN <<Join(v[k], ",")>>
    ELSE v[k]

\* The inner loop: the pairs of one key appended to buf.
RECURSIVE writeValues(_, _, _)
writeValues(buf, keyEscaped, vs) ==
    IF Len(vs) = 0
    THEN buf
    ELSE writeValues((IF Len(buf) > 0 THEN buf \o "&" ELSE buf)
                        \o keyEscaped \o "=" \o QueryEscape(vs[1]),
                     keyEscaped, Tail(vs))

\* The outer loop over the sorted keys.
RECURSIVE writeKeys(_, _, _)
writeKeys(buf, v, keys) ==
    IF Len(keys) = 0
    THEN buf
    ELSE writeKeys(writeValues(buf, QueryEscape(keys[1]), valuesWritten(v, keys[1])),
                   v, Tail(keys))

encodeQueryParams(v) == writeKeys("", v, SortStrings(DOMAIN v))

\* v after the call: vs[:0] and append write the joined value into the first
\* element of the slice the map holds.
encodeQueryParamsLeaves(v) ==
    [k \in DOMAIN v |->
        IF Len(v[k]) > 1 /\ validSliceKey(k)
        THEN <<Join(v[k], ",")>> \o Tail(v[k])
        ELSE v[k]]

(***************************************************************************)
(* The request builder.  An http.Header is a function from keys, as they   *)
(* are spelled in the map, to sequences of values.  The argument v of      *)
(* newRequest is described by what its users see: whether it is nil, the   *)
(* payload serializeRequestBody sees, the url.Values query.Values makes of *)
(* it (or that it makes none: queryErr), and whether it is a reader        *)
(* retryablehttp accepts as a body.                                        *)
(***************************************************************************)
\* make(http.Header)
EmptyHeader == <<>>

\* h.Set(key, value), for a key in canonical form.
SetHeader(h, key, value) ==
    [k \in DOMAIN h \cup {key} |-> IF k = key THEN <<value>> ELSE h[k]]

\* for k, v := range src { dst[k] = v }
CopyHeaders(dst, src) ==
    [k \in DOMAIN dst \cup DOMAIN src |-> IF k \in DOMAIN src THEN src[k] ELSE dst[k]]

\* The errors of url.Parse, query.Values and retryablehttp.NewRequest.
ErrURLParse == Sentinel("parse: missing protocol scheme")

ErrQueryValues == Sentinel("query: Values() expects struct input")

ErrBodyType == Sentinel("cannot handle type")

\* c.baseURL.Parse(path): a path that starts with a colon has no scheme; a
\* path that starts with a slash replaces the base path.
resolvePath(basePath, path) ==
    IF Len(path) > 0 /\ Char(path, 1) = ":"
    THEN [u |-> "", err |-> ErrURLParse]
    ELSE IF Len(path) > 0 /\ Char(path, 1) = "/"
    THEN [u |-> path, err |-> Nil]
    ELSE [u |-> basePath \o path, err |-> Nil]

Arg(isNil, payload, values, queryErr, reader) ==
    [isNil |-> isNil, payload |-> payload, values |-> values, queryErr |-> queryErr,
     reader |-> reader]

\* The request specific headers map of a method.
reqHeaders(method, token) ==
    LET authorized == SetHeader(EmptyHeader, "Authorization", "Bearer " \o token)
    IN  CASE method = "GET" -> SetHeader(authorized, "Accept", "application/vnd.api+json")
          [] method \in {"DELETE", "PATCH", "POST"} ->
                SetHeader(SetHeader(authorized, "Accept", "application/vnd.api+json"),
                          "Content-Type", "application/vnd.api+json")
          [] method = "PUT" ->
                SetHeader(SetHeader(authorized, "Accept", "application/json"),
                          "Content-Type", "application/octet-stream")
          [] OTHER -> authorized

\* Variant of requestHeader with a slip: the default headers are set last.
requestHeaderDefaultsLast(defaults, specific) ==
    CopyHeaders(CopyHeaders(EmptyHeader, specific), defaults)

\* req.Header: the default headers set first, the request specific ones next.
requestHeader(defaults, specific) ==
    CopyHeaders(CopyHeaders(EmptyHeader, defaults), specific)

\* (req, err) as newRequest returns them, or the panic that ends the call.
Built(method, u, rawQuery, body, header) ==
    [built |-> TRUE, method |-> method, u |-> u, rawQuery |-> rawQuery, body |-> body,
     header |-> header, err |-> Nil, panic |-> FALSE]

NotBuilt(err, panic) ==
    [built |-> FALSE, method |-> "", u |-> "", rawQuery |-> "", body |-> "none",
     header |-> EmptyHeader, err |-> err, panic |-> panic]

newRequest(c, method, path, v) ==
    LET resolved == resolvePath(c.basePath, path)
        body == IF method \in {"DELETE", "PATCH", "POST"} /\ ~v.isNil
                THEN serializeRequestBody(v.payload)
                ELSE IF method = "PUT" /\ ~v.isNil
                THEN Serialized("raw")
                ELSE Serialized("none")
        rawQuery == IF method = "GET" /\ ~v.isNil THEN encodeQueryParams(v.values) ELSE ""
    IN  IF resolved.err # Nil
        THEN NotBuilt(resolved.err, FALSE)
        ELSE IF method = "GET" /\ ~v.isNil /\ v.queryErr
        THEN NotBuilt(ErrQueryValues, FALSE)
        ELSE IF body.panic
        THEN NotBuilt(Nil, TRUE)
        ELSE IF body.err # Nil
        THEN NotBuilt(body.err, FALSE)
        ELSE IF body.dialect = "raw" /\ ~v.reader
        THEN NotBuilt(ErrBodyType, FALSE)
        ELSE Built(method, resolved.u, rawQuery, body.dialect,
                   requestHeader(c.headers, reqHeaders(method, c.token)))

(***************************************************************************)
(* The constructor.  The environment holds TFE_ADDRESS, TFE_HOSTNAME and   *)
(* TFE_TOKEN ("": not set); the ping is what the HTTP client's Do returns  *)
(* for the ping request: an error, or a response with its TFP-API-Version  *)
(* and X-RateLimit-Limit headers ("": absent).                             *)
(***************************************************************************)
DefaultAddress == "https://app.terraform.io"

DefaultBasePath == "/api/v2/"

Config(address, basePath, token, headers) ==
    [isNil |-> FALSE, Address |-> address, BasePath |-> basePath, Token |-> token,
     Headers |-> headers]

\* cfg == nil
NilConfig == [isNil |-> TRUE, Address |-> "", BasePath |-> "", Token |-> "", Headers |-> EmptyHeader]

Env(address, hostname, token) ==
    [TFE_ADDRESS |-> address, TFE_HOSTNAME |-> hostname, TFE_TOKEN |-> token]

Ping(err, version, limit) == [err |-> err, version |-> version, limit |-> limit]

DefaultConfig(env) ==
    Config(IF env.TFE_ADDRESS # ""
           THEN env.TFE_ADDRESS
           ELSE IF env.TFE_HOSTNAME # ""
           THEN "https://" \o env.TFE_HOSTNAME
           ELSE DefaultAddress,
           DefaultBasePath,
           env.TFE_TOKEN,
           SetHeader(EmptyHeader, "User-Agent", "go-tfe"))

\* The provided config layered in for its non-blank values.
layeredConfig(cfg, env) ==
    LET config == DefaultConfig(env)
    IN  IF cfg.isNil
        THEN config
        ELSE Config(IF cfg.Address # "" THEN cfg.Address ELSE config.Address,
                    IF cfg.BasePath # "" THEN cfg.BasePath ELSE config.BasePath,
                    IF cfg.Token # "" THEN cfg.Token ELSE config.Token,
                    CopyHeaders(config.Headers, cfg.Headers))

\* url.Parse(config.Address): an address that starts with a colon has no scheme.
ErrInvalidAddress == Err("error", "invalid address: parse: missing protocol scheme")

addressParses(address) == ~(Len(address) > 0 /\ Char(address, 1) = ":")

ErrMissingToken == Errorf("missing API token")

NilClient ==
    [isNil |-> TRUE, address |-> "", basePath |-> "", token |-> "", headers |-> EmptyHeader,
     limiter |-> NewLimiter(RateInf, 0), remoteAPIVersion |-> ""]

\* (client, err) as NewClient returns them, whether the ping request was
\* sent, and whether log.Fatal ended the process instead.
Constructed(client, err, pinged, fatal) ==
    [client |-> client, err |-> err, pinged |-> pinged, fatal |-> fatal]

\* Variant of NewClient with a slip: the token is looked at after the ping.
NewClientPingsFirst(cfg, env, ping) ==
    LET config == layeredConfig(cfg, env)
        basePath == IF HasSuffix(config.BasePath, "/")
                    THEN config.BasePath
                    ELSE config.BasePath \o "/"
        limiter == configureLimiter(ping.limit)
    IN  IF ~addressParses(config.Address)
        THEN Constructed(NilClient, ErrInvalidAddress, FALSE, FALSE)
        ELSE IF ping.err # Nil
        THEN Constructed(NilClient, ping.err, TRUE, FALSE)
        ELSE IF config.Token = ""
        THEN Constructed(NilClient, ErrMissingToken, TRUE, FALSE)
        ELSE IF limiter.fatal
        THEN Constructed(NilClient, Nil, TRUE, TRUE)
        ELSE Constructed([isNil |-> FALSE, address |-> config.Address, basePath |-> basePath,
                          token |-> config.Token, headers |-> config.Headers,
                          limiter |-> limiter, remoteAPIVersion |-> ping.version],
                         Nil, TRUE, FALSE)

NewClient(cfg, env, ping) ==
    LET config == layeredConfig(cfg, env)
        basePath == IF HasSuffix(config.BasePath, "/")
                    THEN config.BasePath
                    ELSE config.BasePath \o "/"
        limiter == configureLimiter(ping.limit)
    IN  IF ~addressParses(config.Address)
        THEN Constructed(NilClient, ErrInvalidAddress, FALSE, FALSE)
        ELSE IF config.Token = ""
        THEN Constructed(NilClient, ErrMissingToken, FALSE, FALSE)
        ELSE IF ping.err # Nil
        THEN Constructed(NilClient, ping.err, TRUE, FALSE)
        ELSE IF limiter.fatal
        THEN Constructed(NilClient, Nil, TRUE, TRUE)
        ELSE Constructed([isNil |-> FALSE, address |-> config.Address, basePath |-> basePath,
                          token |-> config.Token, headers |-> config.Headers,
                          limiter |-> limiter, remoteAPIVersion |-> ping.version],
                         Nil, TRUE, FALSE)

(***************************************************************************)
(* The client and its logical calls.                                       *)
(*                                                                         *)
(* rawLimit is the X-RateLimit-Limit value NewClient read from the ping    *)
(* response; limiter and tokens are the governor it configured and the     *)
(* governor's bucket; calls holds, per caller, the position of its         *)
(* Client.do:                                                              *)
(*   idle     no call in progress (its context may already be cancelled)   *)
(*   wait     blocked in limiter.Wait                                      *)
(*   send     in the HTTP exchange of attempt i                            *)
(*   backoff  sleeping between attempt i and attempt i + 1                 *)
(*   ret      http.Do has returned (resp, err) to do                       *)
(*   done     do has returned result                                       *)
(* exited records that log.Fatal ended the process.                        *)
(***************************************************************************)
VARIABLES rawLimit, limiter, tokens, retryServerErrors, calls, exited, remoteAPIVersion,
          backoff, classified, decoded, serialized, encoded, request, constructed,
          validated,
          operation,
          ipRange,
          completed

tvars == <<rawLimit, limiter, tokens, retryServerErrors, calls, exited, remoteAPIVersion>>

\* backoff, classified, decoded, serialized, encoded, request and constructed
\* hold one application of retryHTTPBackoff, of checkResponseCode, of
\* unmarshalResponse, of serializeRequestBody, of encodeQueryParams, of
\* newRequest and of NewClient: the arguments, and the value returned once
\* computed.
pvars == <<backoff, classified, decoded, serialized, encoded, request, constructed,
          validated,
          operation,
          ipRange,
          completed>>

vars == <<tvars, pvars>>

\* The caller's thread: each logical call runs on its caller's thread, and a
\* thread makes one call at a time.
Callers == {1}

\* The X-RateLimit-Limit values the ping response may carry ("": no header).
RawLimits == {"", "0", "-5", "abc", "1", "3", "4", "2.5", "7", "100"}

\* The outcomes of one HTTP exchange.
RequestPath == "api/v2/organizations"

TransportResponses ==
    {Response(200, RequestPath, "", NoBody),
     Response(404, RequestPath, "", NoBody),
     Response(500, RequestPath, "", NoBody),
     Response(429, RequestPath, "", NoBody),
     Response(429, RequestPath, "2", NoBody),
     Response(429, RequestPath, "soon", NoBody),
     WithMeta(Response(200, RequestPath, "", NoBody), "2.6", "1")}

Outcome(resp, err) == [resp |-> resp, err |-> err]

NoOutcome == Outcome(NilResp, Nil)

Outcomes == {Outcome(NilResp, ErrTransport)} \cup {Outcome(r, Nil) : r \in TransportResponses}

\* The values of rnd.Float64() tried, in thousandths: JitterSteps evenly spaced
\* ones from 0, and the largest.
JitterSteps == 2

Float64Draws == {(k * 1000) \div JitterSteps : k \in 0..(JitterSteps - 1)} \cup {999}

NewCall ==
    [pc |-> "idle", i |-> 0, resp |-> NilResp, err |-> Nil, cancelAt |-> "none",
     due |-> 0, acquired |-> 0, sent |-> 0, last |-> NoOutcome, retry |-> FALSE,
     result |-> Nil]

\* ctx.Err() != nil, and <-ctx.Done() is ready.
ctxDone(call) == call.cancelAt # "none"

Min(a, b) == IF a < b THEN a ELSE b

Max(a, b) == IF a > b THEN a ELSE b

Finished(call, result) == [call EXCEPT !.pc = "done", !.result = result]

(***************************************************************************)
(* limiter.Wait(ctx), as Client.do calls it first.                         *)
(***************************************************************************)
\* Wait returned nil: do goes on to c.http.Do.
admitted(call) == [call EXCEPT !.pc = "send", !.acquired = @ + 1, !.due = 0]

LimiterWait(c) ==
    /\ ~exited
    /\ calls[c].pc = "idle"
    /\ IF 1 > limiter.burst /\ ~limiter.limit.inf
       THEN /\ calls' = [calls EXCEPT ![c] = Finished(@, ErrExceedsBurst)]
            /\ UNCHANGED tokens
       ELSE IF ctxDone(calls[c])
       THEN /\ calls' = [calls EXCEPT ![c] = Finished(@, CtxErr)]
            /\ UNCHANGED tokens
       ELSE IF limiter.limit.inf
       THEN /\ calls' = [calls EXCEPT ![c] = admitted(@)]
            /\ UNCHANGED tokens
       ELSE IF tokens >= 1
       THEN /\ calls' = [calls EXCEPT ![c] = admitted(@)]
            /\ tokens' = tokens - 1
       ELSE \E beyondDeadline \in BOOLEAN :
               IF beyondDeadline
               THEN /\ calls' = [calls EXCEPT ![c] = Finished(@, ErrWouldExceedDeadline)]
                    /\ UNCHANGED tokens
               ELSE /\ calls' = [calls EXCEPT ![c].pc = "wait", ![c].due = 1 - tokens]
                    /\ tokens' = tokens - 1
    /\ UNCHANGED <<rawLimit, limiter, retryServerErrors, exited>>
    /\ UNCHANGED remoteAPIVersion
    /\ UNCHANGED pvars

\* Time passes: the bucket gains a token, reservations come one token nearer.
Tick ==
    /\ ~exited
    /\ ~limiter.limit.inf
    /\ tokens < limiter.burst
    /\ tokens' = tokens + 1
    /\ calls' = [c \in DOMAIN calls |->
                    IF calls[c].pc = "wait"
                    THEN [calls[c] EXCEPT !.due = Max(0, @ - 1)]
                    ELSE calls[c]]
    /\ UNCHANGED <<rawLimit, limiter, retryServerErrors, exited>>
    /\ UNCHANGED remoteAPIVersion
    /\ UNCHANGED pvars

\* The reservation's timer fires.
WaitGranted(c) ==
    /\ ~exited
    /\ calls[c].pc = "wait"
    /\ calls[c].due = 0
    /\ calls' = [calls EXCEPT ![c] = admitted(@)]
    /\ UNCHANGED <<rawLimit, limiter, tokens, retryServerErrors, exited>>
    /\ UNCHANGED remoteAPIVersion
    /\ UNCHANGED pvars

\* ctx.Done() fires first: the reservation is cancelled, a token that nobody
\* reserved after it goes back to the bucket.
WaitCancelled(c) ==
    /\ ~exited
    /\ calls[c].pc = "wait"
    /\ ctxDone(calls[c])
    /\ tokens' = IF /\ calls[c].due > 0
                    /\ \A d \in DOMAIN calls : calls[d].pc = "wait" => calls[d].due <= calls[c].due
                 THEN Min(limiter.burst, tokens + 1)
                 ELSE tokens
    /\ calls' = [calls EXCEPT ![c] = Finished([@ EXCEPT !.due = 0], CtxErr)]
    /\ UNCHANGED <<rawLimit, limiter, retryServerErrors, exited>>
    /\ UNCHANGED remoteAPIVersion
    /\ UNCHANGED pvars

(***************************************************************************)
(* c.http.Do(req): retryablehttp's loop around HTTPClient.Do, with         *)
(* CheckRetry = retryHTTPCheck, Backoff = retryHTTPBackoff, ErrorHandler = *)
(* PassthroughErrorHandler and RetryMax retries after the first attempt.   *)
(***************************************************************************)
\* Variant of retriesRemain with a slip: the loop breaks when remain < 0.
retriesRemainOneMore(i) == RetryMax - i >= 0

\* remain := c.RetryMax - i; the loop breaks when remain <= 0.
retriesRemain(i) == RetryMax - i > 0

\* The loop's pass after HTTPClient.Do returned outcome in attempt call.i.
afterAttempt(call, outcome, serverErrors, float64) ==
    LET check == retryHTTPCheck(serverErrors, ctxDone(call), outcome.resp, outcome.err)
        tried == [call EXCEPT !.sent = @ + 1, !.last = outcome, !.retry = check.retry]
    IN  IF ~check.retry
        THEN [tried EXCEPT !.pc = "ret", !.resp = outcome.resp,
                           !.err = IF check.err # Nil THEN check.err ELSE outcome.err]
        ELSE IF ~retriesRemain(call.i)
        THEN [tried EXCEPT !.pc = "ret", !.resp = outcome.resp, !.err = outcome.err]
        ELSE IF retryHTTPBackoff(RetryWaitMin, RetryWaitMax, call.i, outcome.resp, float64).fatal
        THEN [tried EXCEPT !.pc = "fatal"]
        ELSE [tried EXCEPT !.pc = "backoff"]

Attempt(c) ==
    /\ ~exited
    /\ calls[c].pc = "send"
    /\ \E outcome \in Outcomes, float64 \in Float64Draws :
          calls' = [calls EXCEPT ![c] = afterAttempt(@, outcome, retryServerErrors, float64)]
    /\ exited' = (calls'[c].pc = "fatal")
    /\ UNCHANGED <<rawLimit, limiter, tokens, retryServerErrors>>
    /\ UNCHANGED remoteAPIVersion
    /\ UNCHANGED pvars

\* Variant of nextAttempt with a slip: a retry counts as one more acquisition.
nextAttemptAcquires(call) == [call EXCEPT !.pc = "send", !.i = @ + 1, !.acquired = @ + 1]

\* time.After(wait) fires: the next attempt.
nextAttempt(call) == [call EXCEPT !.pc = "send", !.i = @ + 1]

BackoffElapsed(c) ==
    /\ ~exited
    /\ calls[c].pc = "backoff"
    /\ calls' = [calls EXCEPT ![c] = nextAttempt(@)]
    /\ UNCHANGED <<rawLimit, limiter, tokens, retryServerErrors, exited>>
    /\ UNCHANGED remoteAPIVersion
    /\ UNCHANGED pvars

\* req.Context().Done() fires during the sleep: Do returns (nil, ctx.Err()).
BackoffCancelled(c) ==
    /\ ~exited
    /\ calls[c].pc = "backoff"
    /\ ctxDone(calls[c])
    /\ calls' = [calls EXCEPT ![c].pc = "ret", ![c].resp = NilResp, ![c].err = CtxErr]
    /\ UNCHANGED <<rawLimit, limiter, tokens, retryServerErrors, exited>>
    /\ UNCHANGED remoteAPIVersion
    /\ UNCHANGED pvars

(***************************************************************************)
(* The rest of Client.do, once c.http.Do has returned (resp, err).         *)
(***************************************************************************)
doResult(call) ==
    IF call.err # Nil
    THEN IF ctxDone(call) THEN CtxErr ELSE call.err
    ELSE checkResponseCode(call.resp)

\* Variant of DoReturn with a slip: the version header of the response is
\* cached.
DoReturnCachesVersion(c) ==
    /\ ~exited
    /\ calls[c].pc = "ret"
    /\ calls' = [calls EXCEPT ![c] = Finished(@, doResult(@))]
    /\ remoteAPIVersion' = IF calls[c].resp.version # ""
                           THEN calls[c].resp.version
                           ELSE remoteAPIVersion
    /\ UNCHANGED <<rawLimit, limiter, tokens, retryServerErrors, exited>>
    /\ UNCHANGED pvars

DoReturn(c) ==
    /\ ~exited
    /\ calls[c].pc = "ret"
    /\ calls' = [calls EXCEPT ![c] = Finished(@, doResult(@))]
    /\ UNCHANGED <<rawLimit, limiter, tokens, retryServerErrors, exited>>
    /\ UNCHANGED remoteAPIVersion
    /\ UNCHANGED pvars

\* The caller takes the result; its next call starts with a new context.
Return(c) ==
    /\ ~exited
    /\ calls[c].pc = "done"
    /\ calls' = [calls EXCEPT ![c] = NewCall]
    /\ UNCHANGED <<rawLimit, limiter, tokens, retryServerErrors, exited>>
    /\ UNCHANGED remoteAPIVersion
    /\ UNCHANGED pvars

\* The call's context is cancelled or times out.
Cancel(c) ==
    /\ ~exited
    /\ calls[c].pc \in {"idle", "wait", "send", "backoff", "ret"}
    /\ ~ctxDone(calls[c])
    /\ calls' = [calls EXCEPT ![c].cancelAt = calls[c].pc]
    /\ UNCHANGED <<rawLimit, limiter, tokens, retryServerErrors, exited>>
    /\ UNCHANGED remoteAPIVersion
    /\ UNCHANGED pvars

RetryServerErrors(retry) ==
    /\ ~exited
    /\ retry # retryServerErrors
    /\ retryServerErrors' = retry
    /\ UNCHANGED <<rawLimit, limiter, tokens, calls, exited>>
    /\ UNCHANGED remoteAPIVersion
    /\ UNCHANGED pvars

\* The TFP-API-Version values of the ping response ("": no header), and the
\* values the tests set.
PingVersions == {"", "2.5"}

FakeVersions == {"", "2.5"}

SetFakeRemoteAPIVersion(fakeAPIVersion) ==
    /\ ~exited
    /\ fakeAPIVersion # remoteAPIVersion
    /\ remoteAPIVersion' = fakeAPIVersion
    /\ UNCHANGED <<rawLimit, limiter, tokens, retryServerErrors, calls, exited>>
    /\ UNCHANGED pvars

(***************************************************************************)
(* One application of retryHTTPBackoff, on arguments of the loop's kind.   *)
(***************************************************************************)
\* (min, max): the client's own bounds first.
BackoffBounds == {<<RetryWaitMin, RetryWaitMax>>, <<50, 250>>, <<1000, 3000>>}

\* X-RateLimit-Reset values ("": no header).
ResetHeaders == {"", "2", "0", "-1", "0.05", "0.1", "0.101", "1", "30", "soon"}

BackoffResponses ==
    {NilResp} \cup {Response(status, RequestPath, reset, NoBody) :
                       status \in {200, 429, 500, 503}, reset \in ResetHeaders}

NotComputed == [computed |-> FALSE, fatal |-> FALSE, wait |-> 0]

Computed(w) == [computed |-> TRUE, fatal |-> w.fatal, wait |-> w.wait]

\* hook: c.retryLogHook != nil; hooked: the invocations the hook has seen.
BackoffArgs(bounds, attemptNum, resp, hook) ==
    [min |-> bounds[1], max |-> bounds[2], attemptNum |-> attemptNum, resp |-> resp,
     hook |-> hook, hooked |-> <<>>, out |-> NotComputed]

IdleBackoff == BackoffArgs(<<RetryWaitMin, RetryWaitMax>>, 0, NilResp, FALSE)

Backoff ==
    /\ ~backoff.out.computed
    /\ \E float64 \in Float64Draws :
          backoff' = [backoff EXCEPT
                         !.hooked = @ \o retryLogHook(backoff.hook, backoff.attemptNum,
                                                      backoff.resp),
                         !.out = Computed(retryHTTPBackoff(backoff.min, backoff.max,
                                                           backoff.attemptNum, backoff.resp,
                                                           float64))]
    /\ UNCHANGED <<tvars, classified, decoded, serialized, encoded, request,
                   constructed,
                   validated,
                   operation,
                   ipRange,
                   completed>>

(***************************************************************************)
(* One application of checkResponseCode.                                   *)
(***************************************************************************)
LockPaths == {"api/v2/workspaces/ws-1/actions/lock", "actions/lock"}

UnlockPaths == {"api/v2/workspaces/ws-1/actions/unlock", "actions/unlock"}

ForceUnlockPaths == {"api/v2/workspaces/ws-1/actions/force-unlock"}

OtherPaths == {RequestPath, "api/v2/workspaces/ws-1", "api/v2/runs/run-1/actions/cancel",
               "api/v2/workspaces/unlock", "api/v2/workspaces/lock"}

ClassifyPaths == LockPaths \cup UnlockPaths \cup ForceUnlockPaths \cup OtherPaths

ErrorEntry(title, detail) == [title |-> title, detail |-> detail]

ClassifyBodies ==
    {NoBody,
     Body(TRUE, <<>>),
     Body(TRUE, <<ErrorEntry("conflict", "")>>),
     Body(TRUE, <<ErrorEntry("conflict", "Workspace is locked by Run 123")>>),
     Body(TRUE, <<ErrorEntry("conflict", "Workspace already unlocked")>>),
     Body(TRUE, <<ErrorEntry("Workspace is locked by Run 123", "")>>),
     Body(TRUE, <<ErrorEntry("conflict", "try again"),
                  ErrorEntry("conflict", "Workspace is locked by Run 123")>>),
     Body(TRUE, <<ErrorEntry("is locked by", "Run 123")>>),
     Body(TRUE, <<ErrorEntry("invalid attribute", "Name has already been taken"),
                  ErrorEntry("quota", "")>>),
     Body(TRUE, <<ErrorEntry("quota", "disk 100% full")>>),
     Body(TRUE, <<ErrorEntry("50%", "")>>)}

ClassifyStatuses == {100, 200, 204, 299, 300, 304, 400, 401, 404, 409, 429, 500}

NotClassified(resp) == [resp |-> resp, done |-> FALSE, out |-> Nil, read |-> FALSE]

IdleClassified == NotClassified(NilResp)

Classify ==
    /\ ~classified.done
    /\ classified' = [classified EXCEPT !.done = TRUE,
                                         !.out = checkResponseCode(classified.resp),
                                         !.read = readsErrorPayload(classified.resp)]
    /\ UNCHANGED <<tvars, backoff, decoded, serialized, encoded, request,
                   constructed,
                   validated,
                   operation,
                   ipRange,
                   completed>>

(***************************************************************************)
(* One application of unmarshalResponse.                                   *)
(***************************************************************************)
\* The resource types of RegistryProvider and of AdminRun.
ProviderType == "registry-providers"

RunType == "runs"

\* The destinations: the list types of the services (Pagination and Items
\* []*T), a single resource, and the shapes with one field or another type.
UnmarshalShapes ==
    {Shape("struct", "slice", TRUE, "", ProviderType, "{<nil> []}"),
     Shape("struct", "other", TRUE, "", ProviderType, "{<nil> 0}"),
     Shape("struct", "slice", FALSE, "", ProviderType, "{[]}"),
     Shape("struct", "other", FALSE, "", ProviderType, "{0}"),
     Shape("struct", "none", TRUE, "", "", "{<nil>}"),
     Shape("struct", "none", FALSE, ProviderType, "", "{ }"),
     Shape("struct", "slice", FALSE, ProviderType, ProviderType, "{ []}"),
     Shape("string", "none", FALSE, "", "", "tfe"),
     Shape("invalid", "none", FALSE, "", "", "<invalid reflect.Value>")}

\* What the destination holds before the call: nothing, or an earlier page.
UnmarshalValues ==
    {Value(<<>>, ZeroPagination, NoResource),
     Value(<<Resource(ProviderType, "prov-0")>>, PaginationOf(1, 0, 2, 3, 25),
           Resource(ProviderType, "prov-0"))}

UnmarshalMetas ==
    {Meta("absent", ZeroPagination),
     Meta("malformed", ZeroPagination),
     Meta("object", PaginationOf(1, 0, 0, 2, 5)),
     Meta("object", PaginationOf(2, 1, 3, 3, 25))}

UnmarshalData ==
    {<<>>,
     <<Resource(ProviderType, "prov-1")>>,
     <<Resource(ProviderType, "prov-3"), Resource(ProviderType, "prov-1"),
       Resource(ProviderType, "prov-2")>>,
     <<Resource(ProviderType, "prov-1"), Resource(RunType, "run-1")>>}

UnmarshalBodies ==
    {ResponseBody("many", data, meta) : data \in UnmarshalData, meta \in UnmarshalMetas}
    \cup {ResponseBody("one", <<Resource(ProviderType, "prov-1")>>, Meta("absent", ZeroPagination)),
          ResponseBody("one", <<Resource(RunType, "run-1")>>, Meta("absent", ZeroPagination)),
          ResponseBody("invalid", <<>>, Meta("absent", ZeroPagination))}

NotUnmarshalled ==
    Unmarshalled(Value(<<>>, ZeroPagination, NoResource), Nil, "none")

ToDecode(body, model) == [body |-> body, model |-> model, done |-> FALSE, out |-> NotUnmarshalled]

IdleDecoded ==
    ToDecode(ResponseBody("invalid", <<>>, Meta("absent", ZeroPagination)),
             Model(Shape("invalid", "none", FALSE, "", "", "<invalid reflect.Value>"),
                   Value(<<>>, ZeroPagination, NoResource)))

Unmarshal ==
    /\ ~decoded.done
    /\ decoded' = [decoded EXCEPT !.done = TRUE,
                                  !.out = unmarshalResponse(decoded.body, decoded.model)]
    /\ UNCHANGED <<tvars, backoff, classified, serialized, encoded, request,
                   constructed,
                   validated,
                   operation,
                   ipRange,
                   completed>>

(***************************************************************************)
(* One application of serializeRequestBody.                                *)
(***************************************************************************)
\* The longest list of fields of a payload's struct.
MaxFields == 2

FieldTags ==
    {Tag("attr,name", ""), Tag("primary,workspaces", ""), Tag("", "name"), Tag("", ""),
     Tag("attr,name", "name")}

FieldLists == UNION {[1..n -> FieldTags] : n \in 0..MaxFields}

\* Pointers to structs and slices of them, nil pointers, pointers that point
\* to no struct, slices of values, and values that are neither; no nil
\* interface, which newRequest does not pass on.
SerializePayloads ==
    {Payload(kind, IF kind = "slice" THEN "ptr" ELSE "", "struct", FALSE, fields, encodable) :
        kind \in {"ptr", "slice"}, fields \in FieldLists, encodable \in BOOLEAN}
    \cup {Payload("ptr", "", "struct", TRUE, fields, TRUE) : fields \in FieldLists}
    \cup {Payload("ptr", "", target, FALSE, <<>>, TRUE) : target \in {"string", "map", "ptr"}}
    \cup {Payload("slice", "ptr", target, FALSE, <<>>, TRUE) : target \in {"string", "ptr"}}
    \cup {Payload("slice", elem, "", FALSE, <<>>, TRUE) : elem \in {"struct", "string", "interface"}}
    \cup {Payload(kind, "", "", FALSE, <<>>, TRUE) : kind \in {"struct", "map", "string"}}

ToSerialize(v) == [v |-> v, done |-> FALSE, out |-> NotSerialized(Nil)]

IdleSerialized == ToSerialize(Payload("string", "", "", FALSE, <<>>, TRUE))

Serialize ==
    /\ ~serialized.done
    /\ serialized' = [serialized EXCEPT !.done = TRUE, !.out = serializeRequestBody(serialized.v)]
    /\ UNCHANGED <<tvars, backoff, classified, decoded, encoded, request,
                   constructed,
                   validated,
                   operation,
                   ipRange,
                   completed>>

(***************************************************************************)
(* One application of encodeQueryParams.                                   *)
(***************************************************************************)
\* The most keys of a url.Values.
MaxParams == 2

EncodeKeys == {"include", "filter[name]", "page[number]", "pX", "p[a]", "q", "a b", "a+b"}

EncodeValues == {<<>>, <<"1">>, <<"b", "a">>, <<"a,b", "c", "a,b">>, <<"r&d=1 %">>}

EncodeInputs ==
    UNION {[keys -> EncodeValues] :
              keys \in {some \in SUBSET EncodeKeys : Cardinality(some) <= MaxParams}}

ToEncode(v) == [v |-> v, done |-> FALSE, out |-> "", left |-> v]

IdleEncoded == ToEncode(<<>>)

Encode ==
    /\ ~encoded.done
    /\ encoded' = [encoded EXCEPT !.done = TRUE,
                                  !.out = encodeQueryParams(encoded.v),
                                  !.left = encodeQueryParamsLeaves(encoded.v)]
    /\ UNCHANGED <<tvars, backoff, classified, decoded, serialized, request,
                   constructed,
                   validated,
                   operation,
                   ipRange,
                   completed>>

(***************************************************************************)
(* One application of newRequest.                                          *)
(***************************************************************************)
\* c.headers: the User-Agent DefaultConfig sets, and what the configuration
\* adds under the keys as it spells them.
ConfiguredHeaders ==
    {<<"Authorization", <<"Bearer intruder">>>>, <<"Accept", <<"text/html">>>>,
     <<"Content-Type", <<"text/plain">>>>, <<"X-Trace", <<"a", "b">>>>,
     <<"authorization", <<"Basic dXNlcg">>>>}

HeaderOf(entries) ==
    [k \in {"User-Agent"} \cup {e[1] : e \in entries} |->
        IF \E e \in entries : e[1] = k
        THEN (CHOOSE e \in entries : e[1] = k)[2]
        ELSE <<"go-tfe">>]

RequestClients ==
    {[token |-> token, basePath |-> "/api/v2/", headers |-> HeaderOf(entries)] :
        token \in {"t0k3n", "Bearer"}, entries \in SUBSET ConfiguredHeaders}

RequestMethods == {"GET", "DELETE", "PATCH", "POST", "PUT", "HEAD"}

RequestPaths == {"organizations", "/api/registry/v1/modules", ":organizations"}

NilArg == Arg(TRUE, Payload("ptr", "", "struct", TRUE, <<>>, TRUE), <<>>, FALSE, FALSE)

RequestArgs ==
    {NilArg,
     Arg(FALSE, Payload("ptr", "", "struct", FALSE, <<Tag("primary,workspaces", "")>>, TRUE),
         [k \in {"include"} |-> <<"b", "a">>], FALSE, FALSE),
     Arg(FALSE, Payload("ptr", "", "struct", FALSE, <<Tag("attr,name", "name")>>, TRUE),
         <<>>, FALSE, FALSE),
     Arg(FALSE, Payload("ptr", "", "struct", TRUE, <<>>, TRUE), <<>>, TRUE, FALSE),
     Arg(FALSE, Payload("ptr", "", "struct", FALSE, <<>>, TRUE), <<>>, TRUE, TRUE)}

ToBuild(c, method, path, v) ==
    [c |-> c, method |-> method, path |-> path, v |-> v, done |-> FALSE,
     out |-> NotBuilt(Nil, FALSE)]

IdleRequest ==
    ToBuild([token |-> "t0k3n", basePath |-> "/api/v2/", headers |-> HeaderOf({})],
            "GET", "ping", NilArg)

NewRequest ==
    /\ ~request.done
    /\ request' = [request EXCEPT !.done = TRUE,
                                  !.out = newRequest(request.c, request.method,
                                                     request.path, request.v)]
    /\ UNCHANGED <<tvars, backoff, classified, decoded, serialized, encoded,
                   constructed,
                   validated,
                   operation,
                   ipRange,
                   completed>>

(***************************************************************************)
(* One application of NewClient.                                           *)
(***************************************************************************)
NewClientConfigs ==
    {NilConfig}
    \cup {Config(address, basePath, token, headers) :
             address \in {"", "https://tfe.local", ":tfe.local"},
             basePath \in {"", "/api/v9", "/api/v9/", "api"},
             token \in {"", "t0k3n"},
             headers \in {EmptyHeader, [k \in {"User-Agent", "X-Trace"} |-> <<"cli">>]}}

NewClientEnvs ==
    {Env(address, hostname, token) :
        address \in {"", ":8080"}, hostname \in {"", "tfe.corp"}, token \in {"", "envt0k3n"}}

NewClientPings ==
    {Ping(ErrTransport, "", "")}
    \cup {Ping(Nil, version, limit) : version \in {"", "2.5"}, limit \in {"", "30", "abc"}}

ToConstruct(cfg, env, ping) ==
    [cfg |-> cfg, env |-> env, ping |-> ping, done |-> FALSE,
     out |-> Constructed(NilClient, Nil, FALSE, FALSE)]

IdleConstructed == ToConstruct(NilConfig, Env("", "", ""), Ping(Nil, "", ""))

Construct ==
    /\ ~constructed.done
    /\ constructed' = [constructed EXCEPT !.done = TRUE,
                                          !.out = NewClient(constructed.cfg, constructed.env,
                                                            constructed.ping)]
    /\ UNCHANGED <<tvars, backoff, classified, decoded, serialized, encoded, request,
                   validated,
                   operation,
                   ipRange,
                   completed>>

(***************************************************************************)
(* The validation of resource identifiers.  validStringID and validString  *)
(* are the package's validations: a string of the identifier alphabet, and *)
(* a string that is not empty.  RegistryProviderID.valid is in the source  *)
(* in two revisions, that of registry_provider.go and that of the file     *)
(* part_003; a build has one or the other.                                 *)
(***************************************************************************)
\* The characters reStringID admits: ^[a-zA-Z0-9\-\._]+$
StringIDChars == "abcdefghijklmnopqrstuvwxyzABCDEFGHIJKLMNOPQRSTUVWXYZ0123456789-._"

validStringID(v) == Len(v) > 0 /\ \A i \in 1..Len(v) : InString(Char(v, i), StringIDChars)

validString(v) == v # ""

ErrInvalidOrg == Sentinel("ErrInvalidOrg")

ErrInvalidName == Sentinel("ErrInvalidName")

ErrRequiredName == Sentinel("ErrRequiredName")

ErrInvalidNamespace == Sentinel("ErrInvalidNamespace")

ErrInvalidRegistryName == Sentinel("ErrInvalidRegistryName")

ErrInvalidVersion == Sentinel("ErrInvalidVersion")

ErrRequiredPrivateRegistry == Sentinel("ErrRequiredPrivateRegistry")

\* errors.New(text)
ErrorsNew(text) == Err("error", text)

PrivateRegistry == "private"

PublicRegistry == "public"

\* RegistryName.valid
RegistryName_valid(rn) ==
    IF rn \in {PrivateRegistry, PublicRegistry} THEN Nil ELSE ErrInvalidRegistryName

RegistryProviderID(organizationName, namespace, name, registryName) ==
    [OrganizationName |-> organizationName, Namespace |-> namespace, Name |-> name,
     RegistryName |-> registryName]

\* RegistryProviderID.valid, as registry_provider.go has it.
RegistryProviderID_valid(id) ==
    IF ~validStringID(id.OrganizationName) THEN ErrInvalidOrg
    ELSE IF ~validStringID(id.Name) THEN ErrInvalidName
    ELSE IF ~validStringID(id.Namespace) THEN ErrInvalidNamespace
    ELSE RegistryName_valid(id.RegistryName)

\* RegistryProviderID.valid, as part_003 has it.
RegistryProviderID_validRequired(id) ==
    IF ~validStringID(id.OrganizationName) THEN ErrInvalidOrg
    ELSE IF ~validString(id.Name) THEN ErrRequiredName
    ELSE IF ~validStringID(id.Name) THEN ErrInvalidName
    ELSE IF ~validString(id.Namespace) THEN ErrorsNew("namespace is required")
    ELSE IF ~validStringID(id.Namespace) THEN ErrorsNew("invalid value for namespace")
    ELSE IF ~validString(id.RegistryName) THEN ErrorsNew("registry-name is required")
    ELSE Nil

\* The revisions of the provider's source file.
Revisions == {"registry_provider.go", "part_003"}

providerIDValid(revision, id) ==
    IF revision = "part_003"
    THEN RegistryProviderID_validRequired(id)
    ELSE RegistryProviderID_valid(id)

RegistryProviderVersionID(id, version) == [RegistryProviderID |-> id, Version |-> version]

\* Variant of RegistryProviderVersionID_valid with a slip: the provider ID is
\* validated first.
RegistryProviderVersionID_validProviderFirst(revision, id) ==
    IF providerIDValid(revision, id.RegistryProviderID) # Nil
    THEN providerIDValid(revision, id.RegistryProviderID)
    ELSE IF ~validStringID(id.Version) THEN ErrInvalidVersion
    ELSE IF id.RegistryProviderID.RegistryName # PrivateRegistry THEN ErrRequiredPrivateRegistry
    ELSE Nil

\* RegistryProviderVersionID.valid
RegistryProviderVersionID_valid(revision, id) ==
    IF ~validStringID(id.Version) THEN ErrInvalidVersion
    ELSE IF id.RegistryProviderID.RegistryName # PrivateRegistry THEN ErrRequiredPrivateRegistry
    ELSE providerIDValid(revision, id.RegistryProviderID)

(***************************************************************************)
(* The identifiers the validations are applied to.                         *)
(***************************************************************************)
\* badIdentifier of the tests, and identifiers of each kind.
badIdentifier == "! / nope"

Identifiers == {"", badIdentifier, "orgName", "name-1.0_x"}

RegistryNames == {"", PrivateRegistry, PublicRegistry, "custom"}

Versions == {"", "1.0.0", badIdentifier}

(***************************************************************************)
(* The resource operations: each validates its arguments, then builds the  *)
(* request with newRequest, then hands it to Client.do.                    *)
(***************************************************************************)
ErrInvalidPrivateProviderNamespaceDoesntMatchOrganization ==
    Sentinel("ErrInvalidPrivateProviderNamespaceDoesntMatchOrganization")

ErrInvalidKeyID == Sentinel("ErrInvalidKeyID")

ErrInvalidRunID == Sentinel("ErrInvalidRunID")

ErrInvalidIncludeValue == Sentinel("ErrInvalidIncludeValue")

\* strings.TrimSpace, for the space character.
RECURSIVE TrimSpace(_)
TrimSpace(s) ==
    IF Len(s) = 0 THEN s
    ELSE IF Char(s, 1) = " " THEN TrimSpace(SubSeq(s, 2, Len(s)))
    ELSE IF Char(s, Len(s)) = " " THEN TrimSpace(SubSeq(s, 1, Len(s) - 1))
    ELSE s

\* strings.Split(s, sep), sep one character.
RECURSIVE Split(_, _)
Split(s, sep) ==
    IF \E i \in 1..Len(s) : Char(s, i) = sep
    THEN LET i == CHOOSE k \in 1..Len(s) :
                     Char(s, k) = sep /\ \A j \in 1..(k - 1) : Char(s, j) # sep
         IN  <<SubSeq(s, 1, i - 1)>> \o Split(SubSeq(s, i + 1, Len(s)), sep)
    ELSE <<s>>

\* The run statuses validateAdminRunFilterParams admits, "" included.
RunStatuses ==
    {"applied", "apply_queued", "applying", "canceled", "confirmed", "cost_estimated",
     "cost_estimating", "discarded", "errored", "pending", "plan_queued", "planned",
     "planned_and_finished", "planning", "policy_checked", "policy_checking",
     "policy_override", "policy_soft_failed", ""}

\* The first status of runStatuses, from index i, that is not a run status.
RECURSIVE firstInvalidStatus(_, _)
firstInvalidStatus(runStatuses, i) ==
    IF i > Len(runStatuses) THEN Nil
    ELSE IF runStatuses[i] \in RunStatuses THEN firstInvalidStatus(runStatuses, i + 1)
    ELSE Err("error", "invalid value \"" \o runStatuses[i] \o "\" for run status")

validateAdminRunFilterParams(runStatus) ==
    IF validString(runStatus)
    THEN firstInvalidStatus(Split(TrimSpace(runStatus), ","), 1)
    ELSE Nil

AdminRunIncludeOpts == {"workspace", "workspace.organization", "workspace.organization.owners"}

validateAdminRunIncludeParams(params) ==
    IF \A i \in 1..Len(params) : params[i] \in AdminRunIncludeOpts
    THEN Nil
    ELSE ErrInvalidIncludeValue

\* AdminRunsListOptions.valid; o.isNil: the options pointer is nil.
AdminRunsListOptions_valid(o) ==
    IF o.isNil THEN Nil
    ELSE IF validateAdminRunFilterParams(o.RunStatus) # Nil
    THEN validateAdminRunFilterParams(o.RunStatus)
    ELSE validateAdminRunIncludeParams(o.Include)

\* RegistryProviderCreateOptions.valid, as registry_provider.go has it.
RegistryProviderCreateOptions_valid(o) ==
    IF ~validStringID(o.Name) THEN ErrInvalidName
    ELSE IF ~validStringID(o.Namespace) THEN ErrInvalidNamespace
    ELSE RegistryName_valid(o.RegistryName)

\* RegistryProviderCreateOptions.valid, as part_003 has it.
RegistryProviderCreateOptions_validRequired(o) ==
    IF ~validString(o.Name) THEN ErrRequiredName
    ELSE IF ~validStringID(o.Name) THEN ErrInvalidName
    ELSE IF ~validString(o.Namespace) THEN ErrorsNew("namespace is required")
    ELSE IF ~validStringID(o.Namespace) THEN ErrorsNew("invalid value for namespace")
    ELSE IF ~validString(o.RegistryName) THEN ErrorsNew("registry-name is required")
    ELSE Nil

\* RegistryProviderVersionCreateOptions.valid
RegistryProviderVersionCreateOptions_valid(o) ==
    IF ~validStringID(o.Version) THEN ErrInvalidVersion
    ELSE IF ~validStringID(o.KeyID) THEN ErrInvalidKeyID
    ELSE Nil
(***************************************************************************)
(* The statements of each operation before its newRequest: the error they  *)
(* return, or Nil when the operation goes on.  a: the arguments.           *)
(***************************************************************************)
registryProviders_List(revision, a) ==
    IF ~validStringID(a.organization) THEN ErrInvalidOrg ELSE Nil

registryProviders_Create(revision, a) ==
    LET optionsErr == IF revision = "part_003"
                      THEN RegistryProviderCreateOptions_validRequired(a.options)
                      ELSE RegistryProviderCreateOptions_valid(a.options)
    IN  IF ~validStringID(a.organization) THEN ErrInvalidOrg
        ELSE IF optionsErr # Nil THEN optionsErr
        ELSE IF a.options.RegistryName = PrivateRegistry /\ a.organization # a.options.Namespace
        THEN ErrInvalidPrivateProviderNamespaceDoesntMatchOrganization
        ELSE Nil

registryProviders_Read(revision, a) == providerIDValid(revision, a.providerId)

registryProviders_Delete(revision, a) == providerIDValid(revision, a.providerId)

registryProviderVersions_List(revision, a) == providerIDValid(revision, a.providerID)

registryProviderVersions_Create(revision, a) ==
    IF providerIDValid(revision, a.providerID) # Nil
    THEN providerIDValid(revision, a.providerID)
    ELSE IF a.providerID.RegistryName # PrivateRegistry THEN ErrRequiredPrivateRegistry
    ELSE RegistryProviderVersionCreateOptions_valid(a.options)

registryProviderVersions_Read(revision, a) ==
    RegistryProviderVersionID_valid(revision, a.versionID)

registryProviderVersions_Delete(revision, a) ==
    RegistryProviderVersionID_valid(revision, a.versionID)

adminRuns_List(revision, a) == AdminRunsListOptions_valid(a.options)

adminRuns_ForceCancel(revision, a) ==
    IF ~validStringID(a.runID) THEN ErrInvalidRunID ELSE Nil

Operations ==
    {"registryProviders.List", "registryProviders.Create", "registryProviders.Read",
     "registryProviders.Delete", "registryProviderVersions.List",
     "registryProviderVersions.Create", "registryProviderVersions.Read",
     "registryProviderVersions.Delete", "adminRuns.List", "adminRuns.ForceCancel"}

\* The operations that return a result beside the error.
ReturnsResult(op) ==
    op \notin {"registryProviders.Delete", "registryProviderVersions.Delete",
               "adminRuns.ForceCancel"}

validationOf(revision, op, a) ==
    CASE op = "registryProviders.List" -> registryProviders_List(revision, a)
      [] op = "registryProviders.Create" -> registryProviders_Create(revision, a)
      [] op = "registryProviders.Read" -> registryProviders_Read(revision, a)
      [] op = "registryProviders.Delete" -> registryProviders_Delete(revision, a)
      [] op = "registryProviderVersions.List" -> registryProviderVersions_List(revision, a)
      [] op = "registryProviderVersions.Create" -> registryProviderVersions_Create(revision, a)
      [] op = "registryProviderVersions.Read" -> registryProviderVersions_Read(revision, a)
      [] op = "registryProviderVersions.Delete" -> registryProviderVersions_Delete(revision, a)
      [] op = "adminRuns.List" -> adminRuns_List(revision, a)
      [] op = "adminRuns.ForceCancel" -> adminRuns_ForceCancel(revision, a)

(***************************************************************************)
(* One application of the valid methods of the identifiers.                *)
(***************************************************************************)
ToValidate(revision, id) ==
    [revision |-> revision, id |-> id, done |-> FALSE, err |-> Nil, versionErr |-> Nil,
     createErr |-> Nil]

IdleValidated ==
    ToValidate("registry_provider.go",
               RegistryProviderVersionID(RegistryProviderID("", "", "", ""), ""))

\* id.RegistryProviderID.valid(), id.valid(), and the validations of
\* RegistryProviderVersions.Create for the provider of id, the version of id
\* and the key of the tests.
Validate ==
    /\ ~validated.done
    /\ validated' =
          [validated EXCEPT
              !.done = TRUE,
              !.err = providerIDValid(validated.revision, validated.id.RegistryProviderID),
              !.versionErr = RegistryProviderVersionID_valid(validated.revision, validated.id),
              !.createErr =
                  registryProviderVersions_Create(
                      validated.revision,
                      [providerID |-> validated.id.RegistryProviderID,
                       options |-> [Version |-> validated.id.Version, KeyID |-> "abcdefg"]])]
    /\ UNCHANGED <<tvars, backoff, classified, decoded, serialized, encoded, request,
                   constructed, operation,
                   ipRange,
                   completed>>

(***************************************************************************)
(* One call of a resource operation.  built, acquired and sent count the   *)
(* requests built by newRequest, the tokens taken from the limiter and the *)
(* HTTP requests sent.                                                     *)
(***************************************************************************)
Called(revision, op, a) ==
    [revision |-> revision, op |-> op, a |-> a, pc |-> "start", built |-> 0,
     acquired |-> 0, sent |-> 0, hasResult |-> FALSE, err |-> Nil]

\* The operation returns (nil, err), or err alone.
returned(o, err) == [o EXCEPT !.pc = "done", !.err = err, !.hasResult = FALSE]

\* Variant of validatesFirst with a slip: the request is built before the
\* arguments are validated.
validatesAfterNewRequest(o) ==
    IF validationOf(o.revision, o.op, o.a) # Nil
    THEN returned([o EXCEPT !.built = 1], validationOf(o.revision, o.op, o.a))
    ELSE [o EXCEPT !.pc = "newRequest"]

\* The operation's first statements: its validations.
validatesFirst(o) ==
    IF validationOf(o.revision, o.op, o.a) # Nil
    THEN returned(o, validationOf(o.revision, o.op, o.a))
    ELSE [o EXCEPT !.pc = "newRequest"]

OperationValidates ==
    /\ operation.pc = "start"
    /\ operation' = validatesFirst(operation)
    /\ UNCHANGED <<tvars, backoff, classified, decoded, serialized, encoded, request,
                   constructed, validated,
                   ipRange,
                   completed>>

\* req, err := client.newRequest(...): the request, or the error of building it.
OperationNewRequest ==
    /\ operation.pc = "newRequest"
    /\ \E err \in {Nil, ErrInvalidRequestBody} :
          operation' = IF err # Nil
                       THEN returned(operation, err)
                       ELSE [operation EXCEPT !.pc = "do", !.built = 1]
    /\ UNCHANGED <<tvars, backoff, classified, decoded, serialized, encoded, request,
                   constructed, validated,
                   ipRange,
                   completed>>

\* client.do(ctx, req, v): the limiter refuses the call, or the request is
\* sent, attempts times, and do returns the error of the exchange or nil.
OperationDo ==
    /\ operation.pc = "do"
    /\ \/ \E err \in {CtxErr, ErrExceedsBurst} : operation' = returned(operation, err)
       \/ \E attempts \in {1, 1 + RetryMax}, err \in {Nil, ErrResourceNotFound} :
             operation' = [operation EXCEPT
                              !.pc = "done", !.acquired = 1, !.sent = attempts,
                              !.err = err,
                              !.hasResult = (err = Nil /\ ReturnsResult(operation.op))]
    /\ UNCHANGED <<tvars, backoff, classified, decoded, serialized, encoded, request,
                   constructed, validated,
                   ipRange,
                   completed>>

\* The arguments tried.
OperationProviderIDs ==
    {RegistryProviderID(org, namespace, name, registryName) :
        org \in {"orgName", badIdentifier}, namespace \in {"orgName", ""},
        name \in {"name", ""}, registryName \in {PrivateRegistry, PublicRegistry, ""}}

OperationCreateOptions ==
    {[Namespace |-> namespace, Name |-> name, RegistryName |-> registryName] :
        namespace \in {"orgName", "other", ""}, name \in {"name", badIdentifier},
        registryName \in {PrivateRegistry, PublicRegistry, "custom"}}

OperationVersionOptions ==
    {[Version |-> version, KeyID |-> keyID] :
        version \in {"1.0.0", ""}, keyID \in {"abcdefg", ""}}

OperationListOptions ==
    {[isNil |-> TRUE, RunStatus |-> "", Include |-> <<>>]} \cup
    {[isNil |-> FALSE, RunStatus |-> runStatus, Include |-> include] :
        runStatus \in {"", "applied", "applied,errored", "applied, errored", " pending ",
                       "bogus"},
        include \in {<<>>, <<"workspace">>, <<"workspace", "bogus">>}}

OperationArgs(op) ==
    CASE op = "registryProviders.List" ->
            {[organization |-> org] : org \in {"orgName", badIdentifier, ""}}
      [] op = "registryProviders.Create" ->
            {[organization |-> org, options |-> options] :
                org \in {"orgName", badIdentifier}, options \in OperationCreateOptions}
      [] op \in {"registryProviders.Read", "registryProviders.Delete"} ->
            {[providerId |-> id] : id \in OperationProviderIDs}
      [] op = "registryProviderVersions.List" ->
            {[providerID |-> id] : id \in OperationProviderIDs}
      [] op = "registryProviderVersions.Create" ->
            {[providerID |-> id, options |-> options] :
                id \in OperationProviderIDs, options \in OperationVersionOptions}
      [] op \in {"registryProviderVersions.Read", "registryProviderVersions.Delete"} ->
            {[versionID |-> RegistryProviderVersionID(id, version)] :
                id \in OperationProviderIDs, version \in {"1.0.0", ""}}
      [] op = "adminRuns.List" -> {[options |-> options] : options \in OperationListOptions}
      [] op = "adminRuns.ForceCancel" ->
            {[runID |-> runID] : runID \in {"run-123", badIdentifier, ""}}

IdleOperation ==
    [Called("registry_provider.go", "adminRuns.ForceCancel", [runID |-> ""])
        EXCEPT !.pc = "idle"]

(***************************************************************************)
(* ipRanges.customDo.  The destination *IPRange is a function from its     *)
(* JSON field names to values; a response body is what json.Decoder makes  *)
(* of it: a JSON object with some fields, or no JSON value at all.         *)
(***************************************************************************)
IPRangeFields == {"api", "notifications"}

\* A response whose body is the JSON object with the members object.
JSONObject(members) == [valid |-> TRUE, members |-> members]

\* A body that is no JSON value.
NotJSON == [valid |-> FALSE, members |-> <<>>]

\* json.NewDecoder(body).Decode(ir): the members that name a field of IPRange
\* are stored, the others skipped; a body that is no JSON value is an error
\* found before anything is stored.
Decode(body, ir) ==
    IF body.valid
    THEN [err |-> Nil,
          ir |-> [f \in DOMAIN ir |->
                     IF f \in DOMAIN body.members THEN body.members[f] ELSE ir[f]]]
    ELSE [err |-> ErrJSON, ir |-> ir]

ErrIPRangesResponse(statusCode) ==
    Err("error", "error HTTP response while retrieving IP ranges: " \o Itoa(statusCode))

\* Variant of customDo with a slip: the guard is a disjunction.
customDoGuards(waitErr, doErr, done, statusCode, body, ir) ==
    IF waitErr # Nil THEN [err |-> waitErr, ir |-> ir]
    ELSE IF doErr # Nil THEN [err |-> IF done THEN CtxErr ELSE doErr, ir |-> ir]
    ELSE IF statusCode < 200 \/ statusCode >= 400
    THEN [err |-> ErrIPRangesResponse(statusCode), ir |-> ir]
    ELSE IF statusCode = 304 THEN [err |-> Nil, ir |-> ir]
    ELSE Decode(body, ir)

\* customDo; waitErr: what limiter.Wait returned, doErr: the error of http.Do,
\* done: ctx.Done() is ready, statusCode and body: the response.
customDo(waitErr, doErr, done, statusCode, body, ir) ==
    IF waitErr # Nil THEN [err |-> waitErr, ir |-> ir]
    ELSE IF doErr # Nil THEN [err |-> IF done THEN CtxErr ELSE doErr, ir |-> ir]
    ELSE IF statusCode < 200 /\ statusCode >= 400
    THEN [err |-> ErrIPRangesResponse(statusCode), ir |-> ir]
    ELSE IF statusCode = 304 THEN [err |-> Nil, ir |-> ir]
    ELSE Decode(body, ir)

(***************************************************************************)
(* One application of customDo.                                            *)
(***************************************************************************)
IPRangeStatuses == {100, 199, 200, 204, 304, 399, 400, 404, 500, 599}

IPRangeValues == {<<>>, <<"10.0.0.0/8">>}

IPRanges == [IPRangeFields -> IPRangeValues]

IPRangeBodies ==
    {NotJSON, JSONObject([errors |-> <<"not found">>]),
     JSONObject([api |-> <<"52.0.0.0/16">>]),
     JSONObject([api |-> <<"52.0.0.0/16">>, notifications |-> <<"34.0.0.0/16">>])}

ToFetch(waitErr, doErr, done, statusCode, body, ir) ==
    [waitErr |-> waitErr, doErr |-> doErr, ctxDone |-> done, statusCode |-> statusCode,
     body |-> body, ir |-> ir, returned |-> FALSE, err |-> Nil, out |-> ir]

IdleIPRange ==
    [ToFetch(Nil, Nil, FALSE, 304, NotJSON, [f \in IPRangeFields |-> <<>>])
        EXCEPT !.returned = TRUE]

CustomDo ==
    /\ ~ipRange.returned
    /\ LET r == customDo(ipRange.waitErr, ipRange.doErr, ipRange.ctxDone,
                         ipRange.statusCode, ipRange.body, ipRange.ir)
       IN  ipRange' = [ipRange EXCEPT !.returned = TRUE, !.err = r.err, !.out = r.ir]
    /\ UNCHANGED <<tvars, backoff, classified, decoded, serialized, encoded, request,
                   constructed, validated, operation,
                   completed>>

(***************************************************************************)
(* Client.do as one function of what its stages meet: the error of         *)
(* limiter.Wait, the error of c.http.Do, whether ctx.Done() is ready, the  *)
(* response (resp for the classifier, payload for the decoder: two views   *)
(* of the same body) and the destination v.                                *)
(***************************************************************************)
\* The destination: nil, an io.Writer (written: the bodies copied to it), or
\* a value for unmarshalResponse.
NilDestination == [kind |-> "nil", written |-> <<>>, model |-> <<>>]

Writer(written) == [kind |-> "writer", written |-> written, model |-> <<>>]

Destination(model) == [kind |-> "model", written |-> <<>>, model |-> model]

\* What do returns and leaves: the error, the destination, whether the
\* response body was read, and the stages it went through.
Done(err, v, read, stages) == [err |-> err, v |-> v, read |-> read, stages |-> stages]

\* The statements of do after the classifier: the destination filled.
doDecode(payload, v) ==
    CASE v.kind = "nil" -> Done(Nil, v, FALSE, <<"acquire", "send", "classify">>)
      [] v.kind = "writer" ->
            Done(Nil, [v EXCEPT !.written = @ \o <<payload>>], TRUE,
                 <<"acquire", "send", "classify", "decode">>)
      [] OTHER ->
            LET u == unmarshalResponse(payload, v.model)
            IN  Done(u.err, [v EXCEPT !.model.value = u.value], TRUE,
                     <<"acquire", "send", "classify", "decode">>)

\* Variant of do with a slip: the body is decoded before the status is
\* classified.
doDecodesFirst(waitErr, doErr, ctxIsDone, resp, payload, v) ==
    IF waitErr # Nil THEN Done(waitErr, v, FALSE, <<"acquire">>)
    ELSE IF doErr # Nil
    THEN Done(IF ctxIsDone THEN CtxErr ELSE doErr, v, FALSE, <<"acquire", "send">>)
    ELSE IF checkResponseCode(resp) # Nil
    THEN [doDecode(payload, v) EXCEPT !.err = checkResponseCode(resp)]
    ELSE doDecode(payload, v)

do(waitErr, doErr, ctxIsDone, resp, payload, v) ==
    IF waitErr # Nil THEN Done(waitErr, v, FALSE, <<"acquire">>)
    ELSE IF doErr # Nil
    THEN Done(IF ctxIsDone THEN CtxErr ELSE doErr, v, FALSE, <<"acquire", "send">>)
    ELSE IF checkResponseCode(resp) # Nil
    THEN Done(checkResponseCode(resp), v, readsErrorPayload(resp),
              <<"acquire", "send", "classify">>)
    ELSE doDecode(payload, v)

(***************************************************************************)
(* One application of do.                                                  *)
(***************************************************************************)
DoStatuses == {200, 201, 204, 304, 401, 404, 409, 429, 500}

\* The two views of a response body: an errors payload for the classifier, a
\* document for the decoder.
DoBodies == {NoBody, Body(TRUE, <<ErrorEntry("not found", "")>>)}

DoPayloads ==
    {ResponseBody("invalid", <<>>, Meta("absent", ZeroPagination)),
     ResponseBody("one", <<Resource(ProviderType, "prov-1")>>, Meta("absent", ZeroPagination)),
     ResponseBody("many", <<Resource(ProviderType, "prov-1")>>,
                  Meta("object", PaginationOf(1, 0, 0, 1, 1)))}

DoDestinations ==
    {NilDestination, Writer(<<>>)}
    \cup {Destination(Model(shape, value)) :
             shape \in {Shape("struct", "slice", TRUE, "", ProviderType, "{<nil> []}"),
                        Shape("struct", "none", FALSE, ProviderType, "", "{ }"),
                        Shape("string", "none", FALSE, "", "", "tfe")},
             value \in UnmarshalValues}

ToDo(waitErr, doErr, ctxIsDone, resp, payload, v) ==
    [waitErr |-> waitErr, doErr |-> doErr, ctxDone |-> ctxIsDone, resp |-> resp,
     payload |-> payload, v |-> v, returned |-> FALSE,
     out |-> Done(Nil, v, FALSE, <<>>)]

IdleCompleted ==
    [ToDo(Nil, Nil, FALSE, NilResp, ResponseBody("invalid", <<>>, Meta("absent", ZeroPagination)),
          NilDestination)
        EXCEPT !.returned = TRUE]

Do ==
    /\ ~completed.returned
    /\ completed' = [completed EXCEPT
                        !.returned = TRUE,
                        !.out = do(completed.waitErr, completed.doErr, completed.ctxDone,
                                   completed.resp, completed.payload, completed.v)]
    /\ UNCHANGED <<tvars, backoff, classified, decoded, serialized, encoded, request,
                   constructed, validated, operation, ipRange>>

(***************************************************************************)
(* The specification of the client: the state NewClient leaves, and the    *)
(* steps of its callers.                                                   *)
(***************************************************************************)
InitClient(limits, versions) ==
    /\ rawLimit \in limits
    /\ remoteAPIVersion \in versions
    /\ limiter = configureLimiter(rawLimit)
    /\ ~limiter.fatal
    /\ tokens = limiter.burst
    /\ retryServerErrors = FALSE
    /\ calls = [c \in Callers |-> NewCall]
    /\ exited = FALSE

Init ==
    /\ InitClient(RawLimits, PingVersions)
    /\ backoff = IdleBackoff
    /\ classified = IdleClassified
    /\ decoded = IdleDecoded
    /\ serialized = IdleSerialized
    /\ encoded = IdleEncoded
    /\ request = IdleRequest
    /\ constructed = IdleConstructed
    /\ validated = IdleValidated
    /\ operation = IdleOperation
    /\ ipRange = IdleIPRange
    /\ completed = IdleCompleted

Next ==
    \/ \E c \in Callers :
          \/ LimiterWait(c)
          \/ WaitGranted(c)
          \/ WaitCancelled(c)
          \/ Attempt(c)
          \/ BackoffElapsed(c)
          \/ BackoffCancelled(c)
          \/ DoReturn(c)
          \/ Return(c)
          \/ Cancel(c)
    \/ Tick
    \/ \E retry \in BOOLEAN : RetryServerErrors(retry)
    \/ \E fakeAPIVersion \in FakeVersions : SetFakeRemoteAPIVersion(fakeAPIVersion)

Spec == Init /\ [][Next]_vars

\* retryHTTPBackoff on every argument of BackoffBounds, 0..RetryMax and
\* BackoffResponses.
InitBackoff ==
    /\ InitClient({""}, {""})
    /\ backoff \in {BackoffArgs(bounds, attemptNum, resp, hook) :
                       bounds \in BackoffBounds, attemptNum \in 0..RetryMax,
                       resp \in BackoffResponses, hook \in BOOLEAN}
    /\ classified = IdleClassified
    /\ decoded = IdleDecoded
    /\ serialized = IdleSerialized
    /\ encoded = IdleEncoded
    /\ request = IdleRequest
    /\ constructed = IdleConstructed
    /\ validated = IdleValidated
    /\ operation = IdleOperation
    /\ ipRange = IdleIPRange
    /\ completed = IdleCompleted

NextBackoff == Backoff

SpecBackoff == InitBackoff /\ [][NextBackoff]_vars

\* checkResponseCode on every response of ClassifyStatuses, ClassifyPaths and
\* ClassifyBodies.
InitClassify ==
    /\ InitClient({""}, {""})
    /\ backoff = IdleBackoff
    /\ classified \in {NotClassified(Response(status, path, "", body)) :
                          status \in ClassifyStatuses, path \in ClassifyPaths,
                          body \in ClassifyBodies}
    /\ decoded = IdleDecoded
    /\ serialized = IdleSerialized
    /\ encoded = IdleEncoded
    /\ request = IdleRequest
    /\ constructed = IdleConstructed
    /\ validated = IdleValidated
    /\ operation = IdleOperation
    /\ ipRange = IdleIPRange
    /\ completed = IdleCompleted

NextClassify == Classify

SpecClassify == InitClassify /\ [][NextClassify]_vars

\* unmarshalResponse on every body of UnmarshalBodies and every destination of
\* UnmarshalShapes and UnmarshalValues.
InitUnmarshal ==
    /\ InitClient({""}, {""})
    /\ backoff = IdleBackoff
    /\ classified = IdleClassified
    /\ decoded \in {ToDecode(body, Model(shape, value)) :
                       body \in UnmarshalBodies, shape \in UnmarshalShapes,
                       value \in UnmarshalValues}
    /\ serialized = IdleSerialized
    /\ encoded = IdleEncoded
    /\ request = IdleRequest
    /\ constructed = IdleConstructed
    /\ validated = IdleValidated
    /\ operation = IdleOperation
    /\ ipRange = IdleIPRange
    /\ completed = IdleCompleted

NextUnmarshal == Unmarshal

SpecUnmarshal == InitUnmarshal /\ [][NextUnmarshal]_vars

\* serializeRequestBody on every payload of SerializePayloads.
InitSerialize ==
    /\ InitClient({""}, {""})
    /\ backoff = IdleBackoff
    /\ classified = IdleClassified
    /\ decoded = IdleDecoded
    /\ serialized \in {ToSerialize(v) : v \in SerializePayloads}
    /\ encoded = IdleEncoded
    /\ request = IdleRequest
    /\ constructed = IdleConstructed
    /\ validated = IdleValidated
    /\ operation = IdleOperation
    /\ ipRange = IdleIPRange
    /\ completed = IdleCompleted

NextSerialize == Serialize

SpecSerialize == InitSerialize /\ [][NextSerialize]_vars

\* encodeQueryParams on every url.Values of EncodeInputs.
InitEncode ==
    /\ InitClient({""}, {""})
    /\ backoff = IdleBackoff
    /\ classified = IdleClassified
    /\ decoded = IdleDecoded
    /\ serialized = IdleSerialized
    /\ encoded \in {ToEncode(v) : v \in EncodeInputs}
    /\ request = IdleRequest
    /\ constructed = IdleConstructed
    /\ validated = IdleValidated
    /\ operation = IdleOperation
    /\ ipRange = IdleIPRange
    /\ completed = IdleCompleted

NextEncode == Encode

SpecEncode == InitEncode /\ [][NextEncode]_vars

\* newRequest on every client of RequestClients and arguments of
\* RequestMethods, RequestPaths and RequestArgs.
InitRequest ==
    /\ InitClient({""}, {""})
    /\ backoff = IdleBackoff
    /\ classified = IdleClassified
    /\ decoded = IdleDecoded
    /\ serialized = IdleSerialized
    /\ encoded = IdleEncoded
    /\ request \in {ToBuild(c, method, path, v) :
                       c \in RequestClients, method \in RequestMethods,
                       path \in RequestPaths, v \in RequestArgs}
    /\ constructed = IdleConstructed
    /\ validated = IdleValidated
    /\ operation = IdleOperation
    /\ ipRange = IdleIPRange
    /\ completed = IdleCompleted

NextRequest == NewRequest

SpecRequest == InitRequest /\ [][NextRequest]_vars

\* NewClient on every configuration of NewClientConfigs, environment of
\* NewClientEnvs and ping of NewClientPings.
InitNewClient ==
    /\ InitClient({""}, {""})
    /\ backoff = IdleBackoff
    /\ classified = IdleClassified
    /\ decoded = IdleDecoded
    /\ serialized = IdleSerialized
    /\ encoded = IdleEncoded
    /\ request = IdleRequest
    /\ constructed \in {ToConstruct(cfg, env, ping) :
                           cfg \in NewClientConfigs, env \in NewClientEnvs,
                           ping \in NewClientPings}
    /\ validated = IdleValidated
    /\ operation = IdleOperation
    /\ ipRange = IdleIPRange
    /\ completed = IdleCompleted

NextNewClient == Construct

SpecNewClient == InitNewClient /\ [][NextNewClient]_vars

\* The two valid methods on every identifier of Identifiers, RegistryNames and
\* Versions, in either revision.
InitValidate ==
    /\ InitClient({""}, {""})
    /\ backoff = IdleBackoff
    /\ classified = IdleClassified
    /\ decoded = IdleDecoded
    /\ serialized = IdleSerialized
    /\ encoded = IdleEncoded
    /\ request = IdleRequest
    /\ constructed = IdleConstructed
    /\ validated \in {ToValidate(revision,
                                 RegistryProviderVersionID(
                                     RegistryProviderID(org, namespace, name, registryName),
                                     version)) :
                         revision \in Revisions, org \in Identifiers,
                         namespace \in Identifiers, name \in Identifiers,
                         registryName \in RegistryNames, version \in Versions}
    /\ operation = IdleOperation
    /\ ipRange = IdleIPRange
    /\ completed = IdleCompleted

NextValidate == Validate

SpecValidate == InitValidate /\ [][NextValidate]_vars

\* Every operation of Operations on the arguments of OperationArgs, in either
\* revision.
InitOperation ==
    /\ InitClient({""}, {""})
    /\ backoff = IdleBackoff
    /\ classified = IdleClassified
    /\ decoded = IdleDecoded
    /\ serialized = IdleSerialized
    /\ encoded = IdleEncoded
    /\ request = IdleRequest
    /\ constructed = IdleConstructed
    /\ validated = IdleValidated
    /\ operation \in UNION {{Called(revision, op, a) : a \in OperationArgs(op)} :
                               revision \in Revisions, op \in Operations}
    /\ ipRange = IdleIPRange
    /\ completed = IdleCompleted

NextOperation ==
    \/ OperationValidates
    \/ OperationNewRequest
    \/ OperationDo

SpecOperation == InitOperation /\ [][NextOperation]_vars

\* customDo on every response of IPRangeStatuses and IPRangeBodies, and on the
\* failures of limiter.Wait and of http.Do.
InitIPRanges ==
    /\ InitClient({""}, {""})
    /\ backoff = IdleBackoff
    /\ classified = IdleClassified
    /\ decoded = IdleDecoded
    /\ serialized = IdleSerialized
    /\ encoded = IdleEncoded
    /\ request = IdleRequest
    /\ constructed = IdleConstructed
    /\ validated = IdleValidated
    /\ operation = IdleOperation
    /\ ipRange \in
          {ToFetch(Nil, Nil, done, statusCode, body, ir) :
              done \in BOOLEAN, statusCode \in IPRangeStatuses, body \in IPRangeBodies,
              ir \in IPRanges}
          \cup {ToFetch(waitErr, doErr, done, 200, NotJSON, ir) :
                   waitErr \in {Nil, CtxErr, ErrExceedsBurst}, doErr \in {Nil, ErrTransport},
                   done \in BOOLEAN, ir \in IPRanges}
    /\ completed = IdleCompleted

NextIPRanges == CustomDo

SpecIPRanges == InitIPRanges /\ [][NextIPRanges]_vars

\* do on every response of DoStatuses, DoBodies and DoPayloads and every
\* destination of DoDestinations, and on the failures of limiter.Wait and of
\* c.http.Do.
InitDo ==
    /\ InitClient({""}, {""})
    /\ backoff = IdleBackoff
    /\ classified = IdleClassified
    /\ decoded = IdleDecoded
    /\ serialized = IdleSerialized
    /\ encoded = IdleEncoded
    /\ request = IdleRequest
    /\ constructed = IdleConstructed
    /\ validated = IdleValidated
    /\ operation = IdleOperation
    /\ ipRange = IdleIPRange
    /\ completed \in
          {ToDo(Nil, Nil, ctxIsDone, Response(status, RequestPath, "", body), payload, v) :
              ctxIsDone \in BOOLEAN, status \in DoStatuses, body \in DoBodies,
              payload \in DoPayloads, v \in DoDestinations}
          \cup {ToDo(waitErr, doErr, ctxIsDone, NilResp,
                     ResponseBody("invalid", <<>>, Meta("absent", ZeroPagination)), v) :
                   waitErr \in {Nil, CtxErr, ErrExceedsBurst},
                   doErr \in {ErrTransport}, ctxIsDone \in BOOLEAN, v \in DoDestinations}

NextDo == Do

SpecDo == InitDo /\ [][NextDo]_vars

(***************************************************************************)
(* Properties of the client (Spec).                                        *)
(***************************************************************************)
\* C1, as stated: limiter.Wait is performed once per HTTP attempt, so a call
\* that has made k attempts has performed k acquisitions.
C1_AcquirePerAttempt ==
    \A c \in Callers :
        calls[c].pc \in {"backoff", "ret", "done"} /\ calls[c].sent > 0
            => calls[c].acquired = calls[c].sent

\* C1, amended: limiter.Wait is performed exactly once per logical call, before
\* the first attempt; a call that has made k >= 1 attempts, retried ones
\* included, has performed one acquisition.
C1_AcquireOncePerCall ==
    \A c \in Callers :
        /\ calls[c].acquired <= 1
        /\ calls[c].pc \in {"send", "backoff", "ret"} => calls[c].acquired = 1
        /\ calls[c].sent > 0 => calls[c].acquired = 1

C1_Witness ==
    \E c \in Callers :
        calls[c].pc = "done" /\ calls[c].sent = 3 /\ calls[c].acquired = 1

\* C2, as stated: a logical call never makes more than 30 HTTP attempts.
C2_AtMost30Attempts == \A c \in Callers : calls[c].sent <= 30

\* C2, amended: a logical call never makes more than RetryMax + 1 = 31 HTTP
\* attempts (the first and 30 retries); after a 31st attempt that asks for a
\* retry the loop has ended, http.Do hands that attempt's response and error to
\* do, and do (its context not done) returns that transport error, or the
\* request-failed error of that response.
C2_AtMost31Attempts ==
    \A c \in Callers :
        /\ calls[c].sent <= RetryMax + 1
        /\ calls[c].sent = RetryMax + 1 => calls[c].pc \in {"ret", "done"}
        /\ calls[c].sent = RetryMax + 1 /\ calls[c].retry
              => /\ calls[c].resp = calls[c].last.resp
                 /\ calls[c].err = calls[c].last.err
        /\ calls[c].sent = RetryMax + 1 /\ calls[c].retry /\ calls[c].pc = "done"
              /\ ~ctxDone(calls[c])
              => /\ calls[c].last.err # Nil => calls[c].result = calls[c].last.err
                 /\ calls[c].last.err = Nil
                       => calls[c].result = Errorf(StatusLine(calls[c].last.resp.status))

C2_Witness ==
    \E c \in Callers :
        /\ calls[c].pc = "done"
        /\ calls[c].sent = RetryMax + 1
        /\ calls[c].last.resp.status = 429
        /\ calls[c].result = Errorf("429 Too Many Requests")

\* C3: when an attempt completes and the call's context is done, the retry
\* check ends the loop with the context's error, whatever the attempt's outcome
\* and the server-error-retry flag; do returns that error and sends nothing more.
C3_CancelEndsLoop ==
    [][\A c \in Callers :
          /\ ctxDone(calls[c]) /\ calls'[c].sent = calls[c].sent + 1
                => /\ calls'[c].pc = "ret"
                   /\ calls'[c].err = CtxErr
                   /\ ~calls'[c].retry
          /\ calls[c].pc = "ret" /\ calls[c].err = CtxErr /\ calls'[c] # calls[c]
                => /\ calls'[c].pc = "done"
                   /\ calls'[c].result = CtxErr
                   /\ calls'[c].sent = calls[c].sent]_vars

C3_Witness ==
    \E c \in Callers :
        /\ calls[c].pc = "done"
        /\ calls[c].cancelAt = "send"
        /\ retryServerErrors
        /\ calls[c].last.resp.status = 500
        /\ calls[c].result = CtxErr

\* The retry decision C4 states, for the outcome of an attempt.
C4_Decision(outcome, serverErrors) ==
    CASE outcome.err # Nil -> serverErrors
      [] outcome.err = Nil /\ outcome.resp.status = 429 -> TRUE
      [] outcome.err = Nil /\ outcome.resp.status # 429 /\ outcome.resp.status >= 500 -> serverErrors
      [] OTHER -> FALSE

\* C4: for an attempt completed with the context not done: a transport error
\* is retried iff the server-error-retry flag is set, and otherwise is the
\* call's error at once; 429 is retried; a status >= 500 is retried iff the flag
\* is set; any other status ends the loop.  The flag is unset on a new client
\* and only RetryServerErrors changes it.
C4_RetryDecision ==
    /\ retryServerErrors = FALSE
    /\ [][/\ retryServerErrors' # retryServerErrors => UNCHANGED <<rawLimit, limiter, tokens, calls, exited>>
          /\ \A c \in Callers :
                ~ctxDone(calls[c]) /\ calls'[c].sent = calls[c].sent + 1
                   => LET outcome == calls'[c].last
                      IN  /\ calls'[c].retry = C4_Decision(outcome, retryServerErrors)
                          /\ ~calls'[c].retry
                                => /\ calls'[c].pc = "ret"
                                   /\ calls'[c].err = outcome.err
                                   /\ calls'[c].resp = outcome.resp
                          /\ calls'[c].retry /\ calls[c].i < RetryMax
                                => calls'[c].pc \in {"backoff", "fatal"}]_vars

C4_Witness ==
    \E c \in Callers :
        /\ calls[c].pc = "backoff"
        /\ ~ctxDone(calls[c])
        /\ retryServerErrors
        /\ calls[c].last.resp.status = 500
        /\ calls[c].retry

\* C5, as stated: limiter.Wait fails only when the call's context is done, with
\* the context's error; otherwise the call is admitted and its request sent.
C5_WaitFailsOnlyOnCancel ==
    \A c \in Callers :
        calls[c].pc = "done" /\ calls[c].acquired = 0
            => ctxDone(calls[c]) /\ calls[c].result = CtxErr

\* C6: a call whose context is done while it waits for a token, sleeps between
\* attempts or is in the HTTP exchange returns the context's error.
C6_CancelWhileSuspended ==
    \A c \in Callers :
        calls[c].pc = "done" /\ calls[c].cancelAt \in {"wait", "send", "backoff"}
            => calls[c].result = CtxErr

C6_Witness ==
    \E c \in Callers :
        /\ calls[c].pc = "done"
        /\ calls[c].cancelAt = "send"
        /\ calls[c].last.err = ErrTransport
        /\ calls[c].result = CtxErr

\* The server's limit, in thousandths, for the values of RawLimits that are
\* numbers.
C9_Limits ==
    {<<"0", 0>>, <<"-5", 0 - 5000>>, <<"1", 1000>>, <<"3", 3000>>, <<"4", 4000>>,
     <<"2.5", 2500>>, <<"7", 7000>>, <<"100", 100000>>}

\* C9: no limit or a non-positive one gives rate.Inf and burst 0, and then no
\* call ever blocks in, or is refused by, limiter.Wait; a positive limit L gives
\* rate 0.66 * L and burst floor(0.33 * L); "100" gives 66.0 and 33.
C9_ConfigureLimiter ==
    /\ rawLimit = "" \/ (\E l \in C9_Limits : l[1] = rawLimit /\ l[2] <= 0)
          => /\ limiter.limit.inf
             /\ limiter.burst = 0
             /\ \A c \in Callers :
                   /\ calls[c].pc # "wait"
                   /\ calls[c].pc = "done" /\ calls[c].acquired = 0
                         => calls[c].cancelAt = "idle" /\ calls[c].result = CtxErr
    /\ \A l \in C9_Limits :
          l[1] = rawLimit /\ l[2] > 0
             => /\ ~limiter.limit.inf
                /\ limiter.limit.rate = 66 * l[2]
                /\ 100000 * limiter.burst <= 33 * l[2]
                /\ 33 * l[2] < 100000 * (limiter.burst + 1)
    /\ rawLimit = "100" => limiter.limit.rate = 6600000 /\ limiter.burst = 33

C9_Witness ==
    /\ rawLimit = "100"
    /\ limiter.burst = 33
    /\ \E c \in Callers : calls[c].pc = "done" /\ calls[c].sent = 2

\* C20: no step of a call, whatever version and rate-limit headers the
\* responses carry, changes the cached API version or the governor's rate and
\* burst; the cached version changes only by SetFakeRemoteAPIVersion, a step
\* that changes nothing else; the rate and burst change by no step.
C20_CachedAtConstruction ==
    [][/\ limiter' = limiter
       /\ rawLimit' = rawLimit
       /\ calls' # calls \/ tokens' # tokens => remoteAPIVersion' = remoteAPIVersion
       /\ remoteAPIVersion' # remoteAPIVersion
             => /\ remoteAPIVersion' \in FakeVersions
                /\ UNCHANGED <<tokens, retryServerErrors, calls, exited>>]_vars

C20_Witness ==
    /\ rawLimit = "100"
    /\ limiter.burst = 33
    /\ remoteAPIVersion = "2.5"
    /\ \E c \in Callers :
          /\ calls[c].pc = "done"
          /\ calls[c].sent = 2
          /\ calls[c].resp.version = "2.6"
          /\ calls[c].resp.limit = "1"
          /\ calls[c].result = Nil

(***************************************************************************)
(* Properties of retryHTTPBackoff (SpecBackoff).                           *)
(***************************************************************************)
\* The reset time, in milliseconds, of the values of ResetHeaders that are
\* numbers.
C7_Resets ==
    {<<"2", 2000>>, <<"0", 0>>, <<"-1", 0 - 1000>>, <<"0.05", 50>>, <<"0.1", 100>>,
     <<"0.101", 101>>, <<"1", 1000>>, <<"30", 30000>>}

\* C7: for a 429 whose reset header is r seconds and bounds (min, max), the wait
\* w satisfies base <= w < base + (max - min), where base is r if r is positive
\* and greater than min, and min otherwise; reset "2" with (100ms, 400ms) gives
\* 2s <= w < 2s + 300ms.
C7_RateLimitWait ==
    backoff.out.computed /\ ~backoff.resp.nil /\ backoff.resp.status = 429
        => /\ \A r \in C7_Resets :
                 r[1] = backoff.resp.reset
                    => LET base == IF r[2] > 0 /\ r[2] > backoff.min THEN r[2] ELSE backoff.min
                       IN  /\ ~backoff.out.fatal
                           /\ base <= backoff.out.wait
                           /\ backoff.out.wait < base + (backoff.max - backoff.min)
           /\ backoff.resp.reset = "2" /\ backoff.min = 100 /\ backoff.max = 400
                 => 2000 <= backoff.out.wait /\ backoff.out.wait < 2300

C7_Witness ==
    /\ backoff.out.computed
    /\ backoff.resp.status = 429
    /\ backoff.resp.reset = "2"
    /\ backoff.min = 100
    /\ backoff.max = 400
    /\ backoff.out.wait = 2299

\* C8, as stated: for no response, a status other than 429, or a 429 without
\* the reset header, the wait is between 700 ms and 900 ms times the attempt's
\* number (attemptNum + 1, the attempt just completed counted from 1).
C8_LinearJitterUnlessReset ==
    backoff.out.computed
    /\ (backoff.resp.nil \/ backoff.resp.status # 429 \/ backoff.resp.reset = "")
        => /\ ~backoff.out.fatal
           /\ 700 * (backoff.attemptNum + 1) <= backoff.out.wait
           /\ backoff.out.wait <= 900 * (backoff.attemptNum + 1)

\* C8, amended: for no response or a status other than 429 the wait is between
\* 700 ms and 900 ms times the attempt's number (attemptNum + 1), whatever the
\* bounds passed in and the reset header; a 429 without the reset header is not
\* of this kind: its wait is min plus the jitter, at least min and less than max.
C8_LinearJitterUnless429 ==
    backoff.out.computed
        => /\ backoff.resp.nil \/ backoff.resp.status # 429
                 => /\ ~backoff.out.fatal
                    /\ 700 * (backoff.attemptNum + 1) <= backoff.out.wait
                    /\ backoff.out.wait < 900 * (backoff.attemptNum + 1)
           /\ ~backoff.resp.nil /\ backoff.resp.status = 429 /\ backoff.resp.reset = ""
                 => /\ ~backoff.out.fatal
                    /\ backoff.min <= backoff.out.wait
                    /\ backoff.out.wait < backoff.max

C8_Witness ==
    /\ backoff.out.computed
    /\ backoff.resp.status = 503
    /\ backoff.resp.reset = "30"
    /\ backoff.min = 1000
    /\ backoff.attemptNum = 2
    /\ backoff.out.wait = 2697

(***************************************************************************)
(* Properties of checkResponseCode (SpecClassify).                         *)
(***************************************************************************)
\* Some entry of the payload carries the text.
C10_Mentions(body, text) ==
    /\ body.decodes
    /\ \E i \in 1..Len(body.errors) :
          Contains(body.errors[i].title, text) \/ Contains(body.errors[i].detail, text)

\* C10, as stated: a 409 on a lock path gives ErrWorkspaceLocked, on a
\* force-unlock path ErrWorkspaceNotLocked whatever the payload, on an unlock
\* path ErrWorkspaceLockedByRun if a message contains "is locked by Run" and
\* ErrWorkspaceNotLocked for every other payload.
C10_LockConflicts ==
    classified.done /\ classified.resp.status = 409
        => /\ classified.resp.path \in LockPaths => classified.out = ErrWorkspaceLocked
           /\ classified.resp.path \in ForceUnlockPaths => classified.out = ErrWorkspaceNotLocked
           /\ classified.resp.path \in UnlockPaths
                 => classified.out = IF C10_Mentions(classified.resp.body, "is locked by Run")
                                     THEN ErrWorkspaceLockedByRun
                                     ELSE ErrWorkspaceNotLocked

\* C10, amended: as stated, except that on an unlock path a payload that does
\* not decode, or decodes to no entry, gives the error whose message is the
\* status line; ErrWorkspaceNotLocked is for every payload with at least one
\* entry and no message containing "is locked by Run".
C10_LockConflictsDecoded ==
    classified.done /\ classified.resp.status = 409
        => /\ classified.resp.path \in LockPaths => classified.out = ErrWorkspaceLocked
           /\ classified.resp.path \in ForceUnlockPaths => classified.out = ErrWorkspaceNotLocked
           /\ classified.resp.path \in UnlockPaths
                 => classified.out =
                       IF ~classified.resp.body.decodes \/ classified.resp.body.errors = <<>>
                       THEN Errorf("409 Conflict")
                       ELSE IF C10_Mentions(classified.resp.body, "is locked by Run")
                       THEN ErrWorkspaceLockedByRun
                       ELSE ErrWorkspaceNotLocked

C10_Witness ==
    /\ classified.done
    /\ classified.resp.status = 409
    /\ classified.resp.path = "api/v2/workspaces/ws-1/actions/unlock"
    /\ classified.resp.body = Body(TRUE, <<ErrorEntry("conflict", "Workspace is locked by Run 123")>>)
    /\ classified.out = ErrWorkspaceLockedByRun

\* C11: checkResponseCode returns no error exactly for the statuses 200..299;
\* 401 gives ErrUnauthorized and 404 gives ErrResourceNotFound, whatever the
\* request path and the response body, which is not read for these statuses.
C11_DirectMappings ==
    classified.done
        => /\ classified.out = Nil
                 <=> classified.resp.status >= 200 /\ classified.resp.status <= 299
           /\ classified.resp.status = 401
                 => classified.out = ErrUnauthorized /\ ~classified.read
           /\ classified.resp.status = 404
                 => classified.out = ErrResourceNotFound /\ ~classified.read
           /\ classified.out = Nil => ~classified.read

C11_Witness ==
    /\ classified.done
    /\ classified.resp.status = 404
    /\ classified.resp.path = "api/v2/workspaces/ws-1/actions/unlock"
    /\ classified.resp.body = Body(TRUE, <<ErrorEntry("conflict", "Workspace is locked by Run 123")>>)
    /\ classified.out = ErrResourceNotFound

\* The entries of a payload as C12 renders them: the title, or the title and
\* the detail when the detail is not empty.
C12_Rendered(body) ==
    [i \in 1..Len(body.errors) |->
        IF body.errors[i].detail = ""
        THEN body.errors[i].title
        ELSE body.errors[i].title \o "\n\n" \o body.errors[i].detail]

\* The responses C12 is about: not 2xx, not 401, not 404, and not a 409 on one
\* of the three lock-action paths.
C12_Generic(resp) ==
    /\ ~(resp.status >= 200 /\ resp.status <= 299)
    /\ resp.status \notin {401, 404}
    /\ resp.status = 409
          => resp.path \notin LockPaths \cup UnlockPaths \cup ForceUnlockPaths

\* C12, as stated: for these responses the error's message is the status line
\* when the payload does not decode or has no entries, and otherwise the
\* rendered entries joined by newlines, the server's text reproduced exactly.
C12_RequestFailedVerbatim ==
    classified.done /\ C12_Generic(classified.resp)
        => classified.out =
              IF ~classified.resp.body.decodes \/ classified.resp.body.errors = <<>>
              THEN Err("error", StatusLine(classified.resp.status))
              ELSE Err("error", Join(C12_Rendered(classified.resp.body), "\n"))

(***************************************************************************)
(* Properties of unmarshalResponse (SpecUnmarshal).                        *)
(***************************************************************************)
\* The destination declares exactly one of Items and Pagination.
C13_OneField(shape) == (shape.items # "none") # shape.pagination

\* C13, as stated: for a struct destination that declares exactly one of
\* Items and Pagination, or declares Items with a type that is no slice
\* (Pagination declared or not), unmarshalResponse fails, calls no decoder and
\* leaves the destination as it was.
C13_ShapeErrors ==
    decoded.done /\ decoded.model.shape.kind = "struct"
    /\ (C13_OneField(decoded.model.shape) \/ decoded.model.shape.items = "other")
        => /\ decoded.out.err # Nil
           /\ decoded.out.mode = "none"
           /\ decoded.out.value = decoded.model.value

\* C13, amended: a struct destination that declares both fields, Items with a
\* type that is no slice, fails with ErrItemsMustBeSlice, no decoder called and
\* the destination as it was; a struct destination that declares exactly one of
\* the two fields (whatever the type of Items) is decoded as a single resource:
\* the single-resource decoder is called, Items and Pagination stay as they
\* were, and there is no error exactly when the body is a single-resource
\* document whose type is the destination's, if the destination names one.
C13_ShapeErrorsBothDeclared ==
    decoded.done /\ decoded.model.shape.kind = "struct"
        => /\ decoded.model.shape.items = "other" /\ decoded.model.shape.pagination
                 => /\ decoded.out.err = ErrItemsMustBeSlice
                    /\ decoded.out.mode = "none"
                    /\ decoded.out.value = decoded.model.value
           /\ C13_OneField(decoded.model.shape)
                 => /\ decoded.out.mode = "single"
                    /\ decoded.out.value.Items = decoded.model.value.Items
                    /\ decoded.out.value.Pagination = decoded.model.value.Pagination
                    /\ decoded.out.err = Nil
                          <=> /\ decoded.body.form = "one"
                              /\ decoded.model.shape.primary
                                    \in {"", decoded.body.data[1].type}

C13_Witness ==
    /\ decoded.done
    /\ decoded.model.shape = Shape("struct", "other", TRUE, "", ProviderType, "{<nil> 0}")
    /\ decoded.body.form = "many"
    /\ Len(decoded.body.data) = 3
    /\ decoded.out.err = ErrItemsMustBeSlice

\* C14: for a struct destination declaring Items as a slice of T and
\* Pagination, and a multi-resource body of n resources of T whose pagination
\* metadata is absent or numbers: no error, Items is the n resources in the
\* body's order, whatever Items held before, and Pagination is the body's
\* values (zero when absent); 3 resources with current-page 1, total-pages 2,
\* total-count 5 give 3 items and those values.
C14_ListDecoding ==
    decoded.done /\ decoded.model.shape.kind = "struct"
    /\ decoded.model.shape.items = "slice" /\ decoded.model.shape.pagination
    /\ decoded.body.form = "many"
    /\ (\A i \in 1..Len(decoded.body.data) :
           decoded.body.data[i].type = decoded.model.shape.elem)
    /\ decoded.body.meta.form # "malformed"
        => /\ decoded.out.err = Nil
           /\ decoded.out.value.Items = decoded.body.data
           /\ decoded.body.meta.form = "object"
                 => decoded.out.value.Pagination = decoded.body.meta.pagination
           /\ decoded.body.meta.form = "absent"
                 => decoded.out.value.Pagination = ZeroPagination
           /\ Len(decoded.body.data) = 3
              /\ decoded.body.meta = Meta("object", PaginationOf(1, 0, 0, 2, 5))
                 => /\ Len(decoded.out.value.Items) = 3
                    /\ decoded.out.value.Pagination.CurrentPage = 1
                    /\ decoded.out.value.Pagination.TotalPages = 2
                    /\ decoded.out.value.Pagination.TotalCount = 5

C14_Witness ==
    /\ decoded.done
    /\ decoded.model.value.Items = <<Resource(ProviderType, "prov-0")>>
    /\ decoded.body.meta = Meta("object", PaginationOf(1, 0, 0, 2, 5))
    /\ decoded.out.err = Nil
    /\ decoded.out.mode = "many"
    /\ decoded.out.value.Items =
          <<Resource(ProviderType, "prov-3"), Resource(ProviderType, "prov-1"),
            Resource(ProviderType, "prov-2")>>
    /\ decoded.out.value.Pagination = PaginationOf(1, 0, 0, 2, 5)

(***************************************************************************)
(* Properties of serializeRequestBody (SpecSerialize).                     *)
(***************************************************************************)
\* The payload's element shape has a field with the tag.
C15_HasJSONAPI(v) == \E i \in 1..Len(v.fields) : v.fields[i].jsonapi # ""

C15_HasJSON(v) == \E i \in 1..Len(v.fields) : v.fields[i].json # ""

\* C15, as stated: the encoder never crashes; a slice whose elements are no
\* pointers, and a payload that is neither a pointer nor a slice, give
\* ErrInvalidRequestBody; every other payload is encoded by its fields' tags
\* alone: both kinds of tag give ErrInvalidStructFormat, json tags only the
\* plain JSON dialect, and anything else the JSON:API dialect.
C15_DialectByTags ==
    serialized.done
        => LET v == serialized.v
               out == serialized.out
           IN  /\ ~out.panic
               /\ IF v.kind \notin {"ptr", "slice"} \/ (v.kind = "slice" /\ v.elem # "ptr")
                  THEN out.err = ErrInvalidRequestBody
                  ELSE IF C15_HasJSONAPI(v) /\ C15_HasJSON(v)
                  THEN out.err = ErrInvalidStructFormat
                  ELSE IF C15_HasJSON(v)
                  THEN out.dialect = "json" \/ out.err = ErrMarshal
                  ELSE out.dialect = "jsonapi" \/ out.err = ErrMarshal

(***************************************************************************)
(* Properties of encodeQueryParams (SpecEncode).                           *)
(***************************************************************************)
\* str cut at the first sep: what is before it, what is after it.
C16_Cut(str, sep) ==
    IF InString(sep, str)
    THEN LET at == CHOOSE i \in 1..Len(str) :
                      Char(str, i) = sep /\ ~InString(sep, SubSeq(str, 1, i - 1))
         IN  [before |-> SubSeq(str, 1, at - 1), after |-> SubSeq(str, at + 1, Len(str))]
    ELSE [before |-> str, after |-> ""]

\* The non-empty segments of a query string between its "&".
RECURSIVE C16_Segments(_)
C16_Segments(query) ==
    IF Len(query) = 0
    THEN <<>>
    ELSE LET cut == C16_Cut(query, "&")
         IN  (IF cut.before = "" THEN <<>> ELSE <<cut.before>>) \o C16_Segments(cut.after)

\* The unescaped text, or ok false for an escape that is none.
RECURSIVE C16_Unescape(_)
C16_Unescape(str) ==
    IF Len(str) = 0
    THEN [ok |-> TRUE, str |-> ""]
    ELSE IF Char(str, 1) = "%"
    THEN IF Len(str) >= 3 /\ \E e \in Escapes : e[2] = SubSeq(str, 1, 3)
         THEN LET rest == C16_Unescape(SubSeq(str, 4, Len(str)))
                  ch == (CHOOSE e \in Escapes : e[2] = SubSeq(str, 1, 3))[1]
              IN  [ok |-> rest.ok, str |-> ch \o rest.str]
         ELSE [ok |-> FALSE, str |-> ""]
    ELSE LET rest == C16_Unescape(SubSeq(str, 2, Len(str)))
         IN  [ok |-> rest.ok,
              str |-> (IF Char(str, 1) = "+" THEN " " ELSE Char(str, 1)) \o rest.str]

\* The keys of the output as they are written in it, in order.
C16_WrittenKeys(query) ==
    LET segments == C16_Segments(query)
    IN  [i \in 1..Len(segments) |-> C16_Cut(segments[i], "=").before]

\* The key/value pairs the output decodes into, in order.
C16_Pairs(query) ==
    LET segments == C16_Segments(query)
    IN  [i \in 1..Len(segments) |->
            LET cut == C16_Cut(segments[i], "=")
                key == C16_Unescape(cut.before)
                value == C16_Unescape(cut.after)
            IN  [ok |-> key.ok /\ value.ok, key |-> key.str, value |-> value.str]]

\* The url.Values the output decodes into.
C16_Decoded(query) ==
    LET pairs == C16_Pairs(query)
    IN  [k \in {pairs[i].key : i \in 1..Len(pairs)} |->
            LET Of(pair) == pair.key = k
                mine == SelectSeq(pairs, Of)
            IN  [i \in 1..Len(mine) |-> mine[i].value]]

\* The output decodes without error and encodes again to the same string.
C16_Stable(query) ==
    /\ \A i \in 1..Len(C16_Pairs(query)) : C16_Pairs(query)[i].ok
    /\ encodeQueryParams(C16_Decoded(query)) = query

\* C16, as stated: the keys in the output, as written there, are in
\* lexicographically non-decreasing order, and the output is stable under
\* decoding and encoding again.
C16_WrittenKeysSorted ==
    encoded.done
        => /\ \A i, j \in 1..Len(C16_WrittenKeys(encoded.out)) :
                 i < j => ~StringLess(C16_WrittenKeys(encoded.out)[j],
                                      C16_WrittenKeys(encoded.out)[i])
           /\ C16_Stable(encoded.out)

\* C16, amended: the keys of the pairs the output decodes into (the parameter
\* names, unescaped) are in non-decreasing byte order, and the output is
\* stable under decoding and encoding again; the escaped keys as written need
\* not be in order.
C16_DecodedKeysSorted ==
    encoded.done
        => /\ \A i, j \in 1..Len(C16_Pairs(encoded.out)) :
                 i < j => ~StringLess(C16_Pairs(encoded.out)[j].key,
                                      C16_Pairs(encoded.out)[i].key)
           /\ C16_Stable(encoded.out)

C16_Witness ==
    /\ encoded.done
    /\ DOMAIN encoded.v = {"pX", "p[a]"}
    /\ encoded.out = "pX=1&p%5Ba%5D=b&p%5Ba%5D=a"

\* C17: a key with more than one value that is "include" or contains
\* "filter[" occurs once in the output, its value the values joined by commas
\* in their order; every other key with more than one value occurs once per
\* value, in their order.
C17_SliceKeys ==
    encoded.done
        => \A k \in DOMAIN encoded.v :
              Len(encoded.v[k]) > 1
                 => /\ k \in DOMAIN C16_Decoded(encoded.out)
                    /\ C16_Decoded(encoded.out)[k] =
                          IF k = "include" \/ Contains(k, "filter[")
                          THEN <<Join(encoded.v[k], ",")>>
                          ELSE encoded.v[k]

C17_Witness ==
    /\ encoded.done
    /\ DOMAIN encoded.v = {"filter[name]", "q"}
    /\ encoded.out = "filter%5Bname%5D=a%2Cb%2Cc%2Ca%2Cb&q=b&q=a"

(***************************************************************************)
(* Properties of newRequest (SpecRequest).                                 *)
(***************************************************************************)
\* The Accept and Content-Type values C18 expects of a method ("": not set).
C18_Accept(method) ==
    CASE method \in {"GET", "DELETE", "PATCH", "POST"} -> "application/vnd.api+json"
      [] method = "PUT" -> "application/json"
      [] OTHER -> ""

C18_ContentType(method) ==
    CASE method \in {"DELETE", "PATCH", "POST"} -> "application/vnd.api+json"
      [] method = "PUT" -> "application/octet-stream"
      [] OTHER -> ""

\* The keys the request itself sets for a method.
C18_Specific(method) ==
    {"Authorization"}
    \cup (IF C18_Accept(method) # "" THEN {"Accept"} ELSE {})
    \cup (IF C18_ContentType(method) # "" THEN {"Content-Type"} ELSE {})

\* C18: every request newRequest builds has Authorization = "Bearer <token>",
\* the method's Accept and Content-Type, and every configured default header
\* whose key is not one the request sets itself, with its configured values; a
\* default header under one of those keys is replaced by the request's.
C18_HeadersOfRequest ==
    request.done /\ request.out.built
        => LET header == request.out.header
               method == request.method
           IN  /\ "Authorization" \in DOMAIN header
               /\ header["Authorization"] = <<"Bearer " \o request.c.token>>
               /\ C18_Accept(method) # ""
                     => "Accept" \in DOMAIN header
                        /\ header["Accept"] = <<C18_Accept(method)>>
               /\ C18_ContentType(method) # ""
                     => "Content-Type" \in DOMAIN header
                        /\ header["Content-Type"] = <<C18_ContentType(method)>>
               /\ \A k \in DOMAIN request.c.headers :
                     /\ k \in DOMAIN header
                     /\ k \notin C18_Specific(method) => header[k] = request.c.headers[k]
               /\ DOMAIN header = DOMAIN request.c.headers \cup C18_Specific(method)

C18_Witness ==
    /\ request.done
    /\ request.out.built
    /\ request.method = "POST"
    /\ request.c.token = "t0k3n"
    /\ DOMAIN request.c.headers = {"User-Agent", "Authorization", "Content-Type", "X-Trace"}
    /\ request.out.header["Authorization"] = <<"Bearer t0k3n">>
    /\ request.out.header["Content-Type"] = <<"application/vnd.api+json">>
    /\ request.out.header["X-Trace"] = <<"a", "b">>

(***************************************************************************)
(* Properties of NewClient (SpecNewClient).                                *)
(***************************************************************************)
\* The token and the address of the configuration in effect.
C19_Token(cfg, env) == IF ~cfg.isNil /\ cfg.Token # "" THEN cfg.Token ELSE env.TFE_TOKEN

C19_AddressInvalid(cfg, env) ==
    IF ~cfg.isNil /\ cfg.Address # ""
    THEN Char(cfg.Address, 1) = ":"
    ELSE env.TFE_ADDRESS # "" /\ Char(env.TFE_ADDRESS, 1) = ":"

\* C19, as stated: a client NewClient returns has a token that is not empty
\* and a base path that ends with "/"; with no token in the configuration and
\* none in the environment NewClient returns the missing-token error, the ping
\* not sent.
C19_TokenAndBasePath ==
    constructed.done
        => /\ ~constructed.out.client.isNil
                 => /\ constructed.out.client.token # ""
                    /\ HasSuffix(constructed.out.client.basePath, "/")
           /\ C19_Token(constructed.cfg, constructed.env) = ""
                 => /\ constructed.out.client.isNil
                    /\ constructed.out.err = Err("error", "missing API token")
                    /\ ~constructed.out.pinged

\* C19, amended: as stated, for an address that parses; with an address that
\* does not parse NewClient returns the invalid-address error, whatever the
\* token.  In both cases no client is returned and the ping is not sent.  The
\* base path of a client returned is the configured one, with "/" appended
\* when it does not end with it.
C19_TokenAndBasePathValidAddress ==
    constructed.done
        => /\ ~constructed.out.client.isNil
                 => /\ constructed.out.client.token # ""
                    /\ constructed.out.client.token
                          = C19_Token(constructed.cfg, constructed.env)
                    /\ HasSuffix(constructed.out.client.basePath, "/")
                    /\ LET basePath == IF ~constructed.cfg.isNil /\ constructed.cfg.BasePath # ""
                                        THEN constructed.cfg.BasePath
                                        ELSE "/api/v2/"
                       IN  constructed.out.client.basePath
                              \in {basePath, basePath \o "/"}
           /\ C19_AddressInvalid(constructed.cfg, constructed.env)
                 => /\ constructed.out.client.isNil
                    /\ constructed.out.err # Nil
                    /\ constructed.out.err # Err("error", "missing API token")
                    /\ ~constructed.out.pinged
           /\ C19_Token(constructed.cfg, constructed.env) = ""
              /\ ~C19_AddressInvalid(constructed.cfg, constructed.env)
                 => /\ constructed.out.client.isNil
                    /\ constructed.out.err = Err("error", "missing API token")
                    /\ ~constructed.out.pinged

C19_Witness ==
    /\ constructed.done
    /\ ~constructed.cfg.isNil
    /\ constructed.cfg.BasePath = "/api/v9"
    /\ constructed.cfg.Token = ""
    /\ constructed.env.TFE_TOKEN = "envt0k3n"
    /\ ~constructed.out.client.isNil
    /\ constructed.out.client.basePath = "/api/v9/"
    /\ constructed.out.client.token = "envt0k3n"


(***************************************************************************)
(* Properties of the client (Spec), continued.                             *)
(***************************************************************************)
\* C21, as stated: every failure inside the core is returned to the caller as
\* an error and none is swallowed or logged: the process is never ended by the
\* core's own log.Fatal, and no client is constructed from a rate-limit
\* header that failed to parse.
C21_FailuresReturned ==
    /\ ~exited
    /\ ~(rawLimit # "" /\ ParseFloat(rawLimit).err)


(***************************************************************************)
(* Properties of retryHTTPBackoff (SpecBackoff), continued.                *)
(***************************************************************************)
\* The waits retryHTTPBackoff can return on the arguments of b with no hook
\* configured.
C22_WaitsWithoutHook(b) ==
    {Computed(retryHTTPBackoff(b.min, b.max, b.attemptNum, b.resp, float64)) :
        float64 \in Float64Draws}

C23_FirstFailing(id) ==
    IF ~validStringID(id.OrganizationName) THEN ErrInvalidOrg
    ELSE IF id.Name = "" THEN ErrRequiredName
    ELSE IF ~validStringID(id.Name) THEN ErrInvalidName
    ELSE IF id.Namespace = "" THEN ErrorsNew("namespace is required")
    ELSE IF ~validStringID(id.Namespace) THEN ErrorsNew("invalid value for namespace")
    ELSE IF id.RegistryName = "" THEN ErrorsNew("registry-name is required")
    ELSE Nil

\* Errors are compared as the tests compare them, by message; the one message
\* a sentinel may share with a text of the claim is that of ErrInvalidNamespace.
C23_SameError(e, f) ==
    \/ e = f
    \/ {e, f} = {ErrInvalidNamespace, ErrorsNew("invalid value for namespace")}

\* C23, as stated: RegistryProviderID.valid returns no error exactly when the
\* four components are valid, and otherwise the error of the first failing
\* check: ErrInvalidOrg, ErrRequiredName for an empty name, ErrInvalidName for
\* a malformed one, "namespace is required", "invalid value for namespace",
\* "registry-name is required".
C23_FirstFailingCheck ==
    validated.done
        => C23_SameError(validated.err, C23_FirstFailing(validated.id.RegistryProviderID))


C25_ValidationBeforeNetwork ==
    LET failure == validationOf(operation.revision, operation.op, operation.a)
    IN  operation.pc # "idle" /\ failure # Nil
            => /\ operation.built = 0
               /\ operation.acquired = 0
               /\ operation.sent = 0
               /\ operation.pc \in {"start", "done"}
               /\ operation.pc = "done" => operation.err = failure /\ ~operation.hasResult

C25_Witness ==
    /\ operation.pc = "done"
    /\ operation.op = "registryProviders.Create"
    /\ operation.a.organization = "orgName"
    /\ operation.a.options =
          [Namespace |-> "other", Name |-> "name", RegistryName |-> PrivateRegistry]
    /\ operation.err = ErrInvalidPrivateProviderNamespaceDoesntMatchOrganization
    /\ operation.built = 0
    /\ operation.sent = 0


(***************************************************************************)
(* Properties of encodeQueryParams (SpecEncode), continued.                *)
(***************************************************************************)
\* C26, as stated: encodeQueryParams leaves the parameter set passed to it as
\* it was, same keys and same value lists, and encoding the set a second time
\* yields the string of the first time.
C26_LeavesValues ==
    encoded.done
        => /\ encoded.left = encoded.v
           /\ encodeQueryParams(encoded.left) = encoded.out


(***************************************************************************)
(* Properties of ipRanges.customDo (SpecIPRanges).                         *)
(***************************************************************************)
\* C27: once http.Do has returned a response, customDo returns the "error
\* HTTP response while retrieving IP ranges" error for no status code; a 304
\* returns nil and leaves the destination as it was, and every other status,
\* 4xx and 5xx included, ends with what decoding the body into the
\* destination gives.
C27_GuardNeverTaken ==
    ipRange.returned /\ ipRange.waitErr = Nil /\ ipRange.doErr = Nil
        => /\ ipRange.err # ErrIPRangesResponse(ipRange.statusCode)
           /\ ipRange.statusCode = 304 => ipRange.err = Nil /\ ipRange.out = ipRange.ir
           /\ ipRange.statusCode # 304
                 => /\ ipRange.body.valid => ipRange.err = Nil
                    /\ ~ipRange.body.valid => ipRange.err = ErrJSON
                    /\ \A f \in IPRangeFields :
                          ipRange.out[f] =
                              IF ipRange.body.valid /\ f \in DOMAIN ipRange.body.members
                              THEN ipRange.body.members[f]
                              ELSE ipRange.ir[f]

C27_Witness ==
    /\ ipRange.returned
    /\ ipRange.waitErr = Nil
    /\ ipRange.doErr = Nil
    /\ ipRange.statusCode = 500
    /\ ipRange.body = JSONObject([api |-> <<"52.0.0.0/16">>])
    /\ ipRange.ir = [f \in IPRangeFields |-> <<"10.0.0.0/8">>]
    /\ ipRange.err = Nil
    /\ ipRange.out["api"] = <<"52.0.0.0/16">>


(***************************************************************************)
(* Properties of Client.do (SpecDo).                                       *)
(***************************************************************************)
\* The stage whose failure the inputs of a call lead to: "" when acquire, send
\* and classify all pass.
C28_FailingStage(d) ==
    IF d.waitErr # Nil THEN "acquire"
    ELSE IF d.doErr # Nil THEN "send"
    ELSE IF ~(d.resp.status >= 200 /\ d.resp.status <= 299) THEN "classify"
    ELSE ""

C28_Order == <<"acquire", "send", "classify", "decode">>

\* C28: do goes through acquire, send, classify and decode in this order and
\* stops at the first that fails: when acquire or send fails or the final
\* status is not 2xx, do returns an error, with the destination as it was and
\* no decode stage; with a nil destination a 2xx response returns nil and the
\* body is not read.
C28_StagesInOrder ==
    completed.returned /\ completed.out.stages # <<>>
        => LET out == completed.out
               failing == C28_FailingStage(completed)
           IN  /\ out.stages = SubSeq(C28_Order, 1, Len(out.stages))
               /\ failing # ""
                     => /\ out.err # Nil
                        /\ out.v = completed.v
                        /\ out.stages[Len(out.stages)] = failing
               /\ failing = "" /\ completed.v.kind = "nil"
                     => out.err = Nil /\ ~out.read /\ out.v = completed.v

C28_Witness ==
    /\ completed.returned
    /\ completed.resp.status = 404
    /\ completed.payload.form = "many"
    /\ completed.v.kind = "model"
    /\ completed.v.model.shape.items = "slice"
    /\ completed.v.model.value.Items # <<>>
    /\ completed.out.err = ErrResourceNotFound
    /\ completed.out.v = completed.v


(***************************************************************************)
(* Properties of the client (Spec), continued: admission under a positive  *)
(* server limit.                                                           *)
(***************************************************************************)
\* X-RateLimit-Limit parsed to a positive number.
C29_PositiveLimit == rawLimit # "" /\ ~ParseFloat(rawLimit).err /\ ParseFloat(rawLimit).val > 0

\* C29, as stated, in the form a finite run refutes: under a positive server
\* limit, a call whose context has not fired and has no deadline nearer than
\* its reservation does not end before limiter.Wait has admitted it.
C29_PositiveLimitAdmits ==
    \A c \in Callers :
        (/\ C29_PositiveLimit
         /\ calls[c].pc = "done"
         /\ ~ctxDone(calls[c])
         /\ calls[c].result # ErrWouldExceedDeadline)
            => calls[c].acquired >= 1

(***************************************************************************)
(* Properties of unmarshalResponse (SpecUnmarshal), continued.             *)
(***************************************************************************)
\* C30, as stated: when unmarshalResponse returns an error for a destination
\* with Items and Pagination, neither of the two has been modified.
C30_AllOrNothing ==
    (/\ decoded.done
     /\ decoded.model.shape.kind = "struct"
     /\ decoded.model.shape.items = "slice"
     /\ decoded.model.shape.pagination
     /\ decoded.out.err # Nil)
        => /\ decoded.out.value.Items = decoded.model.value.Items
           /\ decoded.out.value.Pagination = decoded.model.value.Pagination

====
